---- MODULE Spec2Model ----
(***************************************************************************)
(* Execution orchestrator of backend/app/services/executor_service.py:     *)
(* the output-normalization rule (normalize_output) and the language       *)
(* dispatch / sandbox lifecycle of ExecutorService.execute_code and        *)
(* ExecutorService.execute_react_project.                                  *)
(***************************************************************************)
EXTENDS Integers, Sequences, FiniteSets, TLC

(***************************************************************************)
(* Bounds of the model (not program constants).                            *)
(***************************************************************************)
\* largest number of lines of a raw output text
MaxLinesIn == 22

(***************************************************************************)
(* Program constants of normalize_output.                                  *)
(***************************************************************************)
MaxLines == 20
HeadLines == 10
TailLines == 5
MaxWidth == 120
HeadChars == 100
TailChars == 15

VARIABLES
    nOut,    \* raw text handed to normalize_output, as output.split('\n')
    nRes1,   \* normalize_output(nOut), as a list of lines
    nRes2,   \* normalize_output applied to nRes1 again (routers/run.py)
    nPc,     \* "in" | "once" | "twice"
    client,  \* ExecutorService.client is not None (set once, in __init__)
    rq,      \* per request: position in its runner, locals, returned tuple
    fs,      \* paths that exist on the filesystem
    running, \* names of the containers that are running
    exited,  \* names of the containers that exist but are not running
    nextId,  \* source of fresh names (mkdtemp, NamedTemporaryFile, uuid4,
             \* container ids of the runtime)
    sb,      \* one run in file-sandbox mode: the files of temp_dir, the
             \* file_context, the collected output_files
    syn,     \* one call of an input synthesizer: the source, the values
    fn,      \* one file name on its way through _sanitize_filename and
             \* prepare_sandbox_files
    dep,     \* the dependency manifest (package.json) of one web project
    au       \* the uploads table and one authenticated request on it

nvars == <<nOut, nRes1, nRes2, nPc>>
evars == <<client, rq, fs, running, exited, nextId>>
pvars == <<sb, syn, fn, dep, au>>
vars == <<nOut, nRes1, nRes2, nPc, client, rq, fs, running, exited, nextId,
          sb, syn, fn, dep, au>>

(***************************************************************************)
(* Texts.  A text is the list of its lines (Python's output.split('\n'),   *)
(* which is never empty; '\n'.join is its inverse because no line holds a  *)
(* newline).  A line is a sequence of one-character strings.               *)
(***************************************************************************)
Rep(c, n) == [i \in 1..n |-> c]

\* the literal "..." of lines 480 and 490
Ellipsis == <<".", ".", ".">>

\* the literal "Output truncated" tested at line 499
MarkerWords ==
    <<"O","u","t","p","u","t"," ","t","r","u","n","c","a","t","e","d">>

\* the literal "[Output truncated for display]" appended at line 500
MarkerLine == <<"[">> \o MarkerWords \o
    <<" ","f","o","r"," ","d","i","s","p","l","a","y","]">>

\* Python slices line[:k] and line[-k:]
Prefix(s, k) == SubSeq(s, 1, IF k < Len(s) THEN k ELSE Len(s))
Suffix(s, k) == SubSeq(s, (IF k < Len(s) THEN Len(s) - k ELSE 0) + 1, Len(s))

\* needle in line (Python's substring test on one line)
Contains(line, needle) ==
    \E i \in 1..(Len(line) - Len(needle) + 1) :
        SubSeq(line, i, i + Len(needle) - 1) = needle

\* needle in '\n'.join(lines), for a needle without a newline
TextContains(lines, needle) ==
    \E i \in 1..Len(lines) : Contains(lines[i], needle)

\* max(len(line) for line in lines), lines 469-474
MaxLineWidth(lines) ==
    IF \E i \in 1..Len(lines) : \A j \in 1..Len(lines) : Len(lines[j]) <= Len(lines[i])
    THEN Len(lines[CHOOSE i \in 1..Len(lines) :
                     \A j \in 1..Len(lines) : Len(lines[j]) <= Len(lines[i])])
    ELSE 0

\* lines 476-481: keep the first 10 lines, "...", the last 5 lines
CropLineCount(lines) ==
    IF Len(lines) > MaxLines
    THEN Prefix(lines, HeadLines) \o <<Ellipsis>> \o Suffix(lines, TailLines)
    ELSE lines

\* the width crop without the tail of the line (line 490 without line[-15:])
CropLine_NoTail(line) ==
    IF Len(line) > MaxWidth
    THEN Prefix(line, HeadChars) \o Ellipsis
    ELSE line

\* lines 488-493: one line of the width crop
CropLine(line) ==
    IF Len(line) > MaxWidth
    THEN Prefix(line, HeadChars) \o Ellipsis \o Suffix(line, TailChars)
    ELSE line

\* lines 483-494: the width crop, decided on the widest line of the raw text
CropLineWidth(lines, maxw) ==
    IF maxw > MaxWidth
    THEN [i \in 1..Len(lines) |-> CropLine(lines[i])]
    ELSE lines

\* lines 496-501: the truncation notice
AddNotice(lines) ==
    IF ~TextContains(lines, MarkerWords)
    THEN Append(lines, MarkerLine)
    ELSE lines

\* ExecutorService.normalize_output, lines 446-503
normalize_output(output) ==
    IF output = <<<<>>>> THEN output
    ELSE LET maxw == MaxLineWidth(output)
             needs_cropping == Len(output) > MaxLines \/ maxw > MaxWidth
         IN IF needs_cropping
            THEN AddNotice(CropLineWidth(CropLineCount(output), maxw))
            ELSE output

(***************************************************************************)
(* Raw texts the runners produce: n distinct short lines, optionally one   *)
(* special line at position p, optionally one line at position q that      *)
(* already holds the words of the truncation notice.                       *)
(***************************************************************************)
ShortLine(i) == <<"L">> \o Rep("i", i)
Wide121 == Rep("x", MaxWidth + 1)
Wide200 == Rep("x", 100) \o Rep("y", 85) \o Rep("z", 15)
Exact120 == Rep("e", MaxWidth)
UserMarker == <<"#", " ">> \o MarkerWords

Kinds == {"none", "w121", "w200", "e120"}

SpecialLine(k) ==
    CASE k = "w121" -> Wide121
      [] k = "w200" -> Wide200
      [] k = "e120" -> Exact120

RawText(n, p, k, q) ==
    [i \in 1..n |->
        IF i = p /\ k # "none" THEN SpecialLine(k)
        ELSE IF i = q THEN UserMarker
        ELSE ShortLine(i)]

RawTexts ==
    { RawText(n, p, k, q) :
        n \in 1..MaxLinesIn, p \in {1, 10, 11, 17, MaxLinesIn},
        k \in Kinds, q \in {0, 1, 12} } \cup {<<<<>>>>}

NInit ==
    /\ nOut \in RawTexts
    /\ nRes1 = <<>>
    /\ nRes2 = <<>>
    /\ nPc = "in"

\* a runner crops the text it captured (e.g. lines 636, 1324, 1480, 1647)
Normalize ==
    /\ nPc = "in"
    /\ nRes1' = normalize_output(nOut)
    /\ nPc' = "once"
    /\ UNCHANGED <<nOut, nRes2>>
    /\ UNCHANGED evars
    /\ UNCHANGED pvars

\* routers/run.py crops the text execute_code returned once more
NormalizeAgain ==
    /\ nPc = "once"
    /\ nRes2' = normalize_output(nRes1)
    /\ nPc' = "twice"
    /\ UNCHANGED <<nOut, nRes1>>
    /\ UNCHANGED evars
    /\ UNCHANGED pvars


(***************************************************************************)
(* The executor: requests, sandboxes, containers.                          *)
(*                                                                         *)
(* Environment.  Names handed out by tempfile.mkdtemp, NamedTemporaryFile, *)
(* uuid.uuid4 and the container runtime are fresh (nextId).  Starting a    *)
(* container, compiling, spawning and rendering can fail; every wait that  *)
(* the code bounds with a timeout can expire.  A container the runtime has *)
(* created answers wait, kill, logs and remove, and file writes and        *)
(* removals inside the request's own directory succeed.                    *)
(***************************************************************************)
\* two requests in flight at once: every property below is about one
\* request or about a pair of requests
Reqs == {1, 2}

\* ExecutionRequest.language as the callers derive it from the job theme
\* (task_service.py 171-183, routers/run.py 80-92)
Languages == {"python", "c", "java", "html", "react", "node"}

\* class names a Java source may declare (lines 1544-1558)
ClassNames == {"Main", "Calc"}

\* exit codes: settings.CONTAINER_TIMEOUT / 30 s expiry is reported as 124
TimeoutExit == 124
NoExit == 0 - 1

NoPath == [kind |-> "none", id |-> 0, name |-> ""]
NoName == [kind |-> "none", id |-> 0]

\* a directory made by tempfile.mkdtemp / os.makedirs and a file inside it
Dir(kind, id) == [kind |-> kind, id |-> id, name |-> ""]
File(d, name) == [kind |-> d.kind, id |-> d.id, name |-> name]

\* shutil.rmtree(temp_dir): the directory and everything below it
RmTree(files, d) == { f \in files : ~(f.kind = d.kind /\ f.id = d.id) }

Blank ==
    [ pc      |-> "idle",   \* position of the request in its runner
      entry   |-> "none",   \* public entry point the caller used
      lang    |-> "none",
      cls     |-> "none",   \* class name parsed from a Java source
      simple  |-> FALSE,    \* is_simple_code of _execute_react_code
      route   |-> <<>>,     \* functions the request was dispatched through
      dir     |-> NoPath,   \* temp_dir
      paths   |-> {},       \* every path the request wrote
      cname   |-> NoName,   \* container / container_name
      started |-> FALSE,    \* the runtime created a container for the request
      healthy |-> FALSE,    \* the last health check of the server passed
      exit    |-> NoExit,   \* exit status of the program that was run
      pending |-> {},       \* docker CLI commands spawned and not yet finished
      retried |-> FALSE,    \* the auto-repair pass was taken
      fault   |-> "none",   \* "runtime": the container runtime raised an error
                            \* "timeout": the wait on the program expired
      cstatus |-> NoExit,   \* compile_process.returncode
      cdiag   |-> "",       \* what the compiler wrote to stderr
      ran     |-> FALSE,    \* the compiled program was started
      out     |-> "",       \* what the program had written to stdout when
                            \* it exited or was killed
      starts  |-> 0,        \* calls of start_container / `docker run`
      checks  |-> 0,        \* health checks of the server
      cleaned |-> FALSE,    \* the finally block of the web runner has run
      child   |-> FALSE,    \* a process spawned for the request is alive
                            \* after control has left the runner
      routes  |-> <<>>,     \* routes of execute_react_project
      res     |-> <<>> ]    \* the tuple the entry point returned

EInit ==
    /\ client \in BOOLEAN
    /\ rq = [r \in Reqs |-> Blank]
    /\ fs = {}
    /\ running = {}
    /\ exited = {}
    /\ nextId = 1

\* the tuple a 4-tuple runner's result becomes in execute_code (428, 444)
WithFiles(t) == <<t[1], t[2], t[3], t[4], <<>> >>

\* what execute_code hands to its caller for a finished runner
\* (lines 426-444; _execute_react_code 1878-1893 for a React project)
Returned(q) ==
    IF q.entry = "execute_react_project" THEN q.res
    ELSE IF q.lang = "python" THEN q.res
    ELSE IF q.lang = "react" /\ ~q.simple
         THEN <<q.res[1], q.res[2], q.res[3], q.res[4], <<>> >>
    ELSE WithFiles(q.res)

(***************************************************************************)
(* execute_code, lines 387-444, _subprocess_execute 505-525,               *)
(* _execute_web_code 1767-1785, _execute_react_code 1842-1868.             *)
(***************************************************************************)
\* the dispatch without the test of self.client (432-440 always taking 433)
Dispatch_AlwaysDocker(lang, simple, hasClient) ==
    CASE lang = "html"   -> <<"_execute_web_code", "_execute_html_code">>
      [] lang = "react"  -> IF simple
            THEN <<"_execute_web_code", "_execute_react_code", "_execute_node_code">>
            ELSE <<"_execute_web_code", "_execute_react_code", "execute_react_project">>
      [] lang = "node"   -> <<"_execute_web_code", "_execute_node_code">>
      [] lang = "python" -> <<"_execute_python_docker">>
      [] lang = "c"      -> <<"_subprocess_execute", "_execute_c_code">>
      [] lang = "java"   -> <<"_subprocess_execute", "_execute_java_code">>
      [] OTHER           -> <<"_subprocess_execute", "_execute_python_code">>

Dispatch(lang, simple, hasClient) ==
    CASE lang = "html"   -> <<"_execute_web_code", "_execute_html_code">>
      [] lang = "react"  -> IF simple
            THEN <<"_execute_web_code", "_execute_react_code", "_execute_node_code">>
            ELSE <<"_execute_web_code", "_execute_react_code", "execute_react_project">>
      [] lang = "node"   -> <<"_execute_web_code", "_execute_node_code">>
      [] lang = "python" -> IF hasClient THEN <<"_execute_python_docker">>
                                         ELSE <<"_execute_python_code">>
      [] lang = "c"      -> <<"_subprocess_execute", "_execute_c_code">>
      [] lang = "java"   -> <<"_subprocess_execute", "_execute_java_code">>
      [] OTHER           -> <<"_subprocess_execute", "_execute_python_code">>

FirstPc(route) ==
    CASE route[Len(route)] = "_execute_html_code"     -> "html_setup"
      [] route[Len(route)] = "_execute_node_code"     -> "node_setup"
      [] route[Len(route)] = "execute_react_project"  -> "rp_setup"
      [] route[Len(route)] = "_execute_python_docker" -> "pd_setup"
      [] route[Len(route)] = "_execute_python_code"   -> "pp_setup"
      [] route[Len(route)] = "_execute_c_code"        -> "c_setup"
      [] route[Len(route)] = "_execute_java_code"     -> "j_setup"

ExecuteCode(r) ==
    /\ rq[r].pc = "idle"
    /\ \E lang \in Languages, cls \in ClassNames, simple \in BOOLEAN :
        /\ (lang # "java" => cls = "Main")
        /\ (lang # "react" => simple = FALSE)
        /\ LET route == Dispatch(lang, simple, client)
           IN rq' = [rq EXCEPT ![r] =
                [@ EXCEPT !.entry = "execute_code", !.lang = lang, !.cls = cls,
                          !.simple = simple, !.route = route,
                          !.pc = FirstPc(route)]]
    /\ UNCHANGED <<client, fs, running, exited, nextId>>
    /\ UNCHANGED nvars
    /\ UNCHANGED pvars

\* routers/run.py 182 and task_service.py 262 call execute_react_project
ExecuteReactProject(r) ==
    /\ rq[r].pc = "idle"
    /\ rq' = [rq EXCEPT ![r] =
            [@ EXCEPT !.entry = "execute_react_project", !.lang = "react",
                      !.route = <<"execute_react_project">>, !.pc = "rp_setup"]]
    /\ UNCHANGED <<client, fs, running, exited, nextId>>
    /\ UNCHANGED nvars
    /\ UNCHANGED pvars

\* the runner has finished its finally block: the entry point returns
Return(r) ==
    /\ rq[r].pc = "ret"
    /\ rq' = [rq EXCEPT ![r] = [@ EXCEPT !.res = Returned(rq[r]), !.pc = "done"]]
    /\ UNCHANGED <<client, fs, running, exited, nextId>>
    /\ UNCHANGED nvars
    /\ UNCHANGED pvars

(***************************************************************************)
(* _execute_python_docker, lines 539-674.                                  *)
(***************************************************************************)
\* 552-593: mkdtemp, the program file, requirements.txt
PdSetup(r) ==
    /\ rq[r].pc = "pd_setup"
    /\ \E reqs \in BOOLEAN :
        LET d == Dir("python_exec_", nextId)
            written == {d, File(d, "main.py")} \cup
                       (IF reqs THEN {File(d, "requirements.txt")} ELSE {})
        IN /\ fs' = fs \cup written
           /\ rq' = [rq EXCEPT ![r] = [@ EXCEPT !.dir = d, !.paths = written,
                                                 !.pc = "pd_run"]]
    /\ nextId' = nextId + 1
    /\ UNCHANGED <<client, running, exited>>
    /\ UNCHANGED nvars
    /\ UNCHANGED pvars

\* 660-662: the handler of every exception but ContainerError
DockerErrorResult == <<FALSE, "", "Execution error", 1, <<>> >>

\* the timeout reported like any other error (exit code 1 at line 629)
DockerTimeoutResult_Generic == <<FALSE, "", "Execution timeout or error", 1>>

\* 629: the return after container.kill() and container.wait()
DockerTimeoutResult == <<FALSE, "", "Execution timeout or error", TimeoutExit>>

\* 642-648: the return of a container that exited by itself
DockerExitResult(code, stderr) == <<code = 0, "stdout", stderr, code, <<>> >>

\* 595-619: client.containers.run(detach=True); a runtime error is caught
\* by the handler of line 660
PdRun(r) ==
    /\ rq[r].pc = "pd_run"
    /\ \E ok \in BOOLEAN :
        IF ok
        THEN LET c == [kind |-> "container", id |-> nextId]
             IN /\ running' = running \cup {c}
                /\ nextId' = nextId + 1
                /\ rq' = [rq EXCEPT ![r] = [@ EXCEPT !.cname = c, !.started = TRUE,
                                                      !.pc = "pd_wait"]]
        ELSE /\ rq' = [rq EXCEPT ![r] = [@ EXCEPT
                        !.fault = "runtime",
                        !.res = DockerErrorResult,
                        !.pc = "pd_finally"]]
             /\ UNCHANGED <<running, nextId>>
    /\ UNCHANGED <<client, fs, exited>>
    /\ UNCHANGED nvars
    /\ UNCHANGED pvars

\* 621-648: container.wait(timeout=CONTAINER_TIMEOUT); on expiry kill and
\* wait (627-629); otherwise logs, normalize_output, remove, result
PdWait(r) ==
    /\ rq[r].pc = "pd_wait"
    /\ \E o \in {"exit0", "exit1", "timeout"}, stderr \in {"", "stderr"} :
        IF o = "timeout"
        THEN /\ stderr = ""
             /\ running' = running \ {rq[r].cname}
             /\ exited' = exited \cup {rq[r].cname}
             /\ rq' = [rq EXCEPT ![r] = [@ EXCEPT
                        !.fault = "timeout",
                        !.res = DockerTimeoutResult,
                        !.pc = "pd_finally"]]
        ELSE LET code == IF o = "exit0" THEN 0 ELSE 1
             IN /\ running' = running \ {rq[r].cname}
                /\ exited' = exited
                /\ rq' = [rq EXCEPT ![r] = [@ EXCEPT
                        !.exit = code,
                        !.res = DockerExitResult(code, stderr),
                        !.pc = "pd_finally"]]
    /\ UNCHANGED <<client, fs, nextId>>
    /\ UNCHANGED nvars
    /\ UNCHANGED pvars

\* 663-674: container.remove(force=True), shutil.rmtree(temp_dir)
PdFinally(r) ==
    /\ rq[r].pc = "pd_finally"
    /\ running' = running \ {rq[r].cname}
    /\ exited' = exited \ {rq[r].cname}
    /\ fs' = RmTree(fs, rq[r].dir)
    /\ rq' = [rq EXCEPT ![r] = [@ EXCEPT !.pc = "ret"]]
    /\ UNCHANGED <<client, nextId>>
    /\ UNCHANGED nvars
    /\ UNCHANGED pvars

(***************************************************************************)
(* _execute_python_code, lines 1273-1347 (host process).                   *)
(***************************************************************************)
PpSetup(r) ==
    /\ rq[r].pc = "pp_setup"
    /\ LET d == Dir("python_exec_sub_", nextId)
           written == {d, File(d, "main.py")}
       IN /\ fs' = fs \cup written
          /\ rq' = [rq EXCEPT ![r] = [@ EXCEPT !.dir = d, !.paths = written,
                                                !.pc = "pp_run"]]
    /\ nextId' = nextId + 1
    /\ UNCHANGED <<client, running, exited>>
    /\ UNCHANGED nvars
    /\ UNCHANGED pvars

\* 1305-1347: run python3 with the 30 s limit, then the finally block
PpRun(r) ==
    /\ rq[r].pc = "pp_run"
    /\ \E o \in {"exit0", "exit1", "timeout", "nospawn"}, stderr \in {"", "stderr"} :
        /\ (o \in {"timeout", "nospawn"} => stderr = "")
        /\ rq' = [rq EXCEPT ![r] = [@ EXCEPT
              !.fault = IF o = "timeout" THEN "timeout" ELSE "none",
              !.exit = CASE o = "exit0" -> 0 [] o = "exit1" -> 1 [] OTHER -> NoExit,
              !.res = CASE o = "exit0" -> <<TRUE, "stdout", stderr, 0, <<>> >>
                        [] o = "exit1" -> <<FALSE, "stdout", stderr, 1, <<>> >>
                        [] o = "timeout" ->
                             <<FALSE, "", "Execution timeout (30s limit)", TimeoutExit, <<>> >>
                        [] o = "nospawn" -> <<FALSE, "", "Execution error", 1, <<>> >>,
              !.pc = "ret"]]
    /\ fs' = RmTree(fs, rq[r].dir)
    /\ UNCHANGED <<client, running, exited, nextId>>
    /\ UNCHANGED nvars
    /\ UNCHANGED pvars


(***************************************************************************)
(* _execute_c_code, lines 1385-1498.                                       *)
(***************************************************************************)
CSource(id) == [kind |-> "tmpfile", id |-> id, name |-> ".c"]
CExecutable(id) == [kind |-> "tmpfile", id |-> id, name |-> ""]

\* 1404-1415: NamedTemporaryFile(suffix='.c', delete=False)
CSetup(r) ==
    /\ rq[r].pc = "c_setup"
    /\ fs' = fs \cup {CSource(nextId)}
    /\ rq' = [rq EXCEPT ![r] = [@ EXCEPT !.dir = CSource(nextId),
                                          !.paths = {CSource(nextId)},
                                          !.pc = "c_compile"]]
    /\ nextId' = nextId + 1
    /\ UNCHANGED <<client, running, exited>>
    /\ UNCHANGED nvars
    /\ UNCHANGED pvars

\* the finally block 1488-1498
CUnlink(files, src) == files \ {src, CExecutable(src.id)}

\* exit statuses of a compiler that rejected its input
CompilerStatuses == {1, 2}

\* the result of a failed compilation with the exit code fixed at 1
CompileFailure_ExitOne(status, errors) ==
    <<FALSE, "", "Compilation error: " \o errors, 1>>

\* 1429-1432, 1579-1583: the result of a failed compilation
CompileFailure(status, errors) ==
    <<FALSE, "", "Compilation error: " \o errors, status>>

\* 1417-1432: gcc / g++; `await compile_process.communicate()` has no
\* timeout, so a compiler that does not terminate blocks the request; a
\* failed compilation returns through the finally
CCompile(r) ==
    /\ rq[r].pc = "c_compile"
    /\ \E o \in {"ok", "fail", "nospawn", "hang"},
          status \in CompilerStatuses, errors \in {"diagnostics"} :
        /\ (o # "fail" => status = 1)
        /\ CASE o = "ok" ->
               /\ fs' = fs \cup {CExecutable(rq[r].dir.id)}
               /\ rq' = [rq EXCEPT ![r] = [@ EXCEPT
                        !.paths = @ \cup {CExecutable(rq[r].dir.id)},
                        !.cstatus = 0,
                        !.pc = "c_run"]]
          [] o = "fail" ->
               /\ fs' = CUnlink(fs, rq[r].dir)
               /\ rq' = [rq EXCEPT ![r] = [@ EXCEPT
                        !.cstatus = status, !.cdiag = errors,
                        !.res = CompileFailure(status, errors),
                        !.pc = "ret"]]
          [] o = "hang" ->
               /\ fs' = fs
               /\ rq' = [rq EXCEPT ![r] = [@ EXCEPT !.pc = "c_blocked"]]
          [] o = "nospawn" ->
               /\ fs' = CUnlink(fs, rq[r].dir)
               /\ rq' = [rq EXCEPT ![r] = [@ EXCEPT
                        !.res = <<FALSE, "", "Execution error", 1>>,
                        !.pc = "ret"]]
    /\ UNCHANGED <<client, running, exited, nextId>>
    /\ UNCHANGED nvars
    /\ UNCHANGED pvars

\* the tuple of a program run under the 30 s limit (1448-1484, 1606-1651)
RunResult(o, stderr) ==
    CASE o = "exit0" -> <<TRUE, "stdout", stderr, 0>>
      [] o = "exit1" -> <<FALSE, "stdout", stderr, 1>>
      [] o = "timeout" -> <<FALSE, "", "Execution timeout (30s limit)", TimeoutExit>>

RunExit(o) == CASE o = "exit0" -> 0 [] o = "exit1" -> 1 [] OTHER -> NoExit

\* 1434-1498: run the executable, then the finally block
CRun(r) ==
    /\ rq[r].pc = "c_run"
    /\ \E o \in {"exit0", "exit1", "timeout"}, stderr \in {"", "stderr"},
          written \in {"", "stdout"} :
        /\ (o = "timeout" => stderr = "")
        /\ (o # "timeout" => written = "stdout")
        /\ rq' = [rq EXCEPT ![r] = [@ EXCEPT !.exit = RunExit(o),
                                              !.ran = TRUE, !.out = written,
                                              !.fault = IF o = "timeout" THEN "timeout" ELSE "none",
                                              !.res = RunResult(o, stderr),
                                              !.pc = "ret"]]
    /\ fs' = CUnlink(fs, rq[r].dir)
    /\ UNCHANGED <<client, running, exited, nextId>>
    /\ UNCHANGED nvars
    /\ UNCHANGED pvars

(***************************************************************************)
(* _execute_java_code, lines 1538-1668.                                    *)
(***************************************************************************)
\* 1563: os.path.join(tempfile.gettempdir(), f"{class_name}.java")
JavaSource(cls) == [kind |-> "gettempdir_java", id |-> 0, name |-> cls]
\* 1663: temp_java_file.replace('.java', '.class')
JavaClass(cls) == [kind |-> "gettempdir_class", id |-> 0, name |-> cls]

\* the class files javac writes next to the source: one for the class the
\* file is named after and one for every further class of the source, here
\* a nested class (javac names it Outer$Inner.class)
JavaEmitted(cls, nested) ==
    {JavaClass(cls)} \cup (IF nested THEN {JavaClass(cls \o "$Inner")} ELSE {})

\* 1562-1565
JSetup(r) ==
    /\ rq[r].pc = "j_setup"
    /\ fs' = fs \cup {JavaSource(rq[r].cls)}
    /\ rq' = [rq EXCEPT ![r] = [@ EXCEPT !.dir = JavaSource(rq[r].cls),
                                          !.paths = {JavaSource(rq[r].cls)},
                                          !.pc = "j_compile"]]
    /\ UNCHANGED <<client, running, exited, nextId>>
    /\ UNCHANGED nvars
    /\ UNCHANGED pvars

\* the finally block 1655-1668
JUnlink(files, cls) == files \ {JavaSource(cls), JavaClass(cls)}

\* 1569-1583: javac, awaited without a timeout; it fails when the source
\* file is no longer there
JCompile(r) ==
    /\ rq[r].pc = "j_compile"
    /\ \E o \in {"ok", "fail", "nospawn", "hang"},
          status \in CompilerStatuses, errors \in {"diagnostics"},
          nested \in BOOLEAN :
        /\ (o # "fail" => status = 1)
        /\ (o # "ok" => ~nested)
        /\ (JavaSource(rq[r].cls) \notin fs => o \notin {"ok", "hang"})
        /\ CASE o = "ok" ->
               /\ fs' = fs \cup JavaEmitted(rq[r].cls, nested)
               /\ rq' = [rq EXCEPT ![r] = [@ EXCEPT
                        !.paths = @ \cup JavaEmitted(rq[r].cls, nested),
                        !.cstatus = 0,
                        !.pc = "j_run"]]
          [] o = "fail" ->
               /\ fs' = JUnlink(fs, rq[r].cls)
               /\ rq' = [rq EXCEPT ![r] = [@ EXCEPT
                        !.cstatus = status, !.cdiag = errors,
                        !.res = CompileFailure(status, errors),
                        !.pc = "ret"]]
          [] o = "hang" ->
               /\ fs' = fs
               /\ rq' = [rq EXCEPT ![r] = [@ EXCEPT !.pc = "j_blocked"]]
          [] o = "nospawn" ->
               /\ fs' = JUnlink(fs, rq[r].cls)
               /\ rq' = [rq EXCEPT ![r] = [@ EXCEPT
                        !.res = <<FALSE, "", "Execution error", 1>>,
                        !.pc = "ret"]]
    /\ UNCHANGED <<client, running, exited, nextId>>
    /\ UNCHANGED nvars
    /\ UNCHANGED pvars

\* 1587-1668: java -cp; it exits non-zero when the class file is gone
JRun(r) ==
    /\ rq[r].pc = "j_run"
    /\ \E o \in {"exit0", "exit1", "timeout"}, stderr \in {"", "stderr"},
          written \in {"", "stdout"} :
        /\ (o = "timeout" => stderr = "")
        /\ (o # "timeout" => written = "stdout")
        /\ (JavaClass(rq[r].cls) \notin fs => o = "exit1" /\ stderr = "stderr")
        /\ rq' = [rq EXCEPT ![r] = [@ EXCEPT !.exit = RunExit(o),
                                              !.ran = TRUE, !.out = written,
                                              !.fault = IF o = "timeout" THEN "timeout" ELSE "none",
                                              !.res = RunResult(o, stderr),
                                              !.pc = "ret"]]
    /\ fs' = JUnlink(fs, rq[r].cls)
    /\ UNCHANGED <<client, running, exited, nextId>>
    /\ UNCHANGED nvars
    /\ UNCHANGED pvars

(***************************************************************************)
(* _execute_html_code, lines 1787-1840.                                    *)
(***************************************************************************)
HtmlSetup(r) ==
    /\ rq[r].pc = "html_setup"
    /\ LET d == Dir("html_", nextId)
       IN /\ fs' = fs \cup {d, File(d, "index.html")}
          /\ rq' = [rq EXCEPT ![r] = [@ EXCEPT !.dir = d,
                        !.paths = {d, File(d, "index.html")},
                        !.pc = "html_render"]]
    /\ nextId' = nextId + 1
    /\ UNCHANGED <<client, running, exited>>
    /\ UNCHANGED nvars
    /\ UNCHANGED pvars

\* 1807-1840: render in the headless browser, then the finally block
HtmlRender(r) ==
    /\ rq[r].pc = "html_render"
    /\ \E ok \in BOOLEAN, logs \in {"", "console"} :
        /\ (~ok => logs = "")
        /\ rq' = [rq EXCEPT ![r] = [@ EXCEPT
              !.res = IF ok THEN <<TRUE, "html", logs, 0>>
                            ELSE <<FALSE, "", "HTML execution error", 1>>,
              !.pc = "ret"]]
    /\ fs' = RmTree(fs, rq[r].dir)
    /\ UNCHANGED <<client, running, exited, nextId>>
    /\ UNCHANGED nvars
    /\ UNCHANGED pvars


(***************************************************************************)
(* The docker CLI.  `docker run --name n` fails while a container named n  *)
(* exists; a command spawned with create_subprocess_exec and not awaited   *)
(* (or abandoned by asyncio.wait_for) finishes on its own later.           *)
(***************************************************************************)
NameInUse(n) == n \in running \cup exited

\* a spawned `docker rm -f` / `docker stop` of the request's container ends
CliCompletes(r) ==
    /\ \E c \in rq[r].pending :
        /\ rq' = [rq EXCEPT ![r] = [@ EXCEPT !.pending = @ \ {c}]]
        /\ running' = running \ {rq[r].cname}
        /\ exited' = IF c = "rm" THEN exited \ {rq[r].cname}
                     ELSE IF rq[r].cname \in running
                          THEN exited \cup {rq[r].cname} ELSE exited
    /\ UNCHANGED <<client, fs, nextId>>
    /\ UNCHANGED nvars
    /\ UNCHANGED pvars

(***************************************************************************)
(* _execute_node_code, lines 1899-2159.                                    *)
(***************************************************************************)
\* 1905-1956: project directory, container name, image, package.json,
\* server.js; an exception goes to the handler of line 2139
NodeSetup(r) ==
    /\ rq[r].pc = "node_setup"
    /\ \E o \in {"ok", "noimage", "raise"} :
        LET d == Dir("node_app_", nextId)
            n == [kind |-> "node_app_", id |-> nextId]
            proj == {d, File(d, "package.json"), File(d, "server.js")}
        IN CASE o = "ok" ->
                 /\ fs' = fs \cup proj
                 /\ rq' = [rq EXCEPT ![r] = [@ EXCEPT !.dir = d, !.cname = n,
                                !.paths = proj, !.pc = "node_start"]]
             [] o = "noimage" ->
                 /\ fs' = fs \cup {d}
                 /\ rq' = [rq EXCEPT ![r] = [@ EXCEPT !.dir = d, !.cname = n,
                                !.paths = {d},
                                !.res = <<FALSE, "", "Docker image node:18 unavailable", 1>>,
                                !.pc = "node_finally"]]
             [] o = "raise" ->
                 /\ fs' = fs
                 /\ rq' = [rq EXCEPT ![r] = [@ EXCEPT
                                !.res = <<FALSE, "", "Node.js execution error", 1>>,
                                !.pc = "node_finally"]]
    /\ nextId' = nextId + 1
    /\ UNCHANGED <<client, running, exited>>
    /\ UNCHANGED nvars
    /\ UNCHANGED pvars

\* the return of a failed start leaving the function at once, as if lines
\* 1991-1992 and 2032-2033 were outside the try of line 1903
AfterFailedStart_SkipFinally == "ret"

\* 1991-1992, 2032-2033: the return of a failed start is inside the try
\* of line 1903, so the finally block of line 2142 runs before it
AfterFailedStart == "node_finally"

\* start_container, 1967-1987, called at 1990 and at 2031
NodeStart(r) ==
    /\ rq[r].pc \in {"node_start", "node_restart"}
    /\ \E ok \in BOOLEAN :
        /\ (NameInUse(rq[r].cname) => ~ok)
        /\ IF ok
           THEN /\ running' = running \cup {rq[r].cname}
                /\ rq' = [rq EXCEPT ![r] = [@ EXCEPT !.started = TRUE,
                            !.starts = @ + 1,
                            !.pc = IF rq[r].pc = "node_start"
                                   THEN "node_health" ELSE "node_health2"]]
           ELSE /\ running' = running
                /\ rq' = [rq EXCEPT ![r] = [@ EXCEPT
                            !.starts = @ + 1,
                            !.res = <<FALSE, "", "Failed to start node container", 1>>,
                            !.pc = AfterFailedStart]]
    /\ UNCHANGED <<client, fs, exited, nextId>>
    /\ UNCHANGED nvars
    /\ UNCHANGED pvars

\* a failed health check always followed by the inspection of the logs
\* (the block of line 2002 entered after the second check as well)
AfterHealth_RepairAgain(pc, h) ==
    IF ~h THEN "node_repair" ELSE "node_capture"

\* 1999-2038: only the first failed health check is followed by the
\* inspection of the logs; after the second the result is built
AfterHealth(pc, h) ==
    IF ~h /\ pc = "node_health" THEN "node_repair" ELSE "node_capture"

\* _wait_for_health (1028-1042) at 1999 and at 2034: the server answers
\* only while its container runs; expiry of the timeout gives False
NodeHealth(r) ==
    /\ rq[r].pc \in {"node_health", "node_health2"}
    /\ \E h \in BOOLEAN :
        /\ (rq[r].cname \notin running => ~h)
        /\ rq' = [rq EXCEPT ![r] = [@ EXCEPT !.healthy = h,
                    !.checks = @ + 1,
                    !.pc = AfterHealth(rq[r].pc, h)]]
    /\ UNCHANGED <<client, fs, running, exited, nextId>>
    /\ UNCHANGED nvars
    /\ UNCHANGED pvars

\* 2002-2036: docker logs, _extract_missing_node_modules; with missing
\* packages spawn `docker rm -f` (not awaited) and rewrite package.json
NodeRepair(r) ==
    /\ rq[r].pc = "node_repair"
    /\ \E missing \in BOOLEAN :
        rq' = [rq EXCEPT ![r] =
                IF missing
                THEN [@ EXCEPT !.pending = @ \cup {"rm"}, !.retried = TRUE,
                               !.pc = "node_restart"]
                ELSE [@ EXCEPT !.pc = "node_capture"]]
    /\ UNCHANGED <<client, fs, running, exited, nextId>>
    /\ UNCHANGED nvars
    /\ UNCHANGED pvars

\* success taken from the captured text instead of the health check
\* (line 2136 as success = bool(output_html))
NodeResult_SuccessFromOutput(healthy, fetched) ==
    LET output_html == IF fetched THEN "response"
                       ELSE "Server started, but no HTTP response was captured."
        logs == IF ~healthy THEN "Server did not become reachable"
                ELSE IF fetched THEN "HTTP status"
                ELSE "Server became reachable but fetching response failed"
        success == output_html # ""
    IN <<success, output_html, logs, IF success THEN 0 ELSE 1>>

\* 2038-2137: the tuple of a server run; success = healthy
NodeResult(healthy, fetched) ==
    LET output_html == IF fetched THEN "response"
                       ELSE "Server started, but no HTTP response was captured."
        logs == IF ~healthy THEN "Server did not become reachable"
                ELSE IF fetched THEN "HTTP status"
                ELSE "Server became reachable but fetching response failed"
        success == healthy
    IN <<success, output_html, logs, IF success THEN 0 ELSE 1>>

\* 2038-2137: fetch the demo route when healthy, attach the server logs
NodeCapture(r) ==
    /\ rq[r].pc = "node_capture"
    /\ \E fetched \in BOOLEAN :
        /\ (~rq[r].healthy => ~fetched)
        /\ rq' = [rq EXCEPT ![r] = [@ EXCEPT
                    !.res = NodeResult(rq[r].healthy, fetched),
                    !.pc = "node_finally"]]
    /\ UNCHANGED <<client, fs, running, exited, nextId>>
    /\ UNCHANGED nvars
    /\ UNCHANGED pvars

\* 2142-2159: `docker rm -f` awaited for at most 8 s, shutil.rmtree
NodeFinally(r) ==
    /\ rq[r].pc = "node_finally"
    /\ \E intime \in BOOLEAN :
        IF rq[r].cname = NoName
        THEN /\ intime
             /\ UNCHANGED <<running, exited>>
             /\ rq' = [rq EXCEPT ![r] = [@ EXCEPT !.cleaned = TRUE,
                                                   !.pc = "ret"]]
        ELSE IF intime
        THEN /\ running' = running \ {rq[r].cname}
             /\ exited' = exited \ {rq[r].cname}
             /\ rq' = [rq EXCEPT ![r] = [@ EXCEPT !.cleaned = TRUE,
                                                   !.pc = "ret"]]
        ELSE /\ UNCHANGED <<running, exited>>
             /\ rq' = [rq EXCEPT ![r] = [@ EXCEPT !.pending = @ \cup {"rm"},
                                                   !.cleaned = TRUE,
                                                   !.pc = "ret"]]
    /\ fs' = RmTree(fs, rq[r].dir)
    /\ UNCHANGED <<client, nextId>>
    /\ UNCHANGED nvars
    /\ UNCHANGED pvars

(***************************************************************************)
(* execute_react_project, lines 2161-2237.                                 *)
(***************************************************************************)
ReactFailure ==
    <<FALSE, "React project execution failed", "React project execution failed", 1, <<>> >>

\* 2179-2222: project directory, container name, find_free_port,
\* _create_react_project_structure
RpSetup(r) ==
    /\ rq[r].pc = "rp_setup"
    /\ \E port \in BOOLEAN :
        LET d == Dir("react_spa_", nextId)
            n == [kind |-> "react_spa_", id |-> nextId]
            proj == {d, File(d, "package.json"), File(d, "src/App.jsx")}
        IN IF port
           THEN /\ fs' = fs \cup proj
                /\ rq' = [rq EXCEPT ![r] = [@ EXCEPT !.dir = d, !.cname = n,
                                !.paths = proj, !.pc = "rp_start"]]
           ELSE /\ fs' = fs \cup {d}
                /\ rq' = [rq EXCEPT ![r] = [@ EXCEPT !.dir = d, !.cname = n,
                                !.paths = {d}, !.res = ReactFailure,
                                !.pc = "rp_cleanup"]]
    /\ nextId' = nextId + 1
    /\ UNCHANGED <<client, running, exited>>
    /\ UNCHANGED nvars
    /\ UNCHANGED pvars

\* _start_react_container 2450-2532: `docker rm -f` spawned and not awaited,
\* _ensure_image, `docker run -d --name`
RpStart(r) ==
    /\ rq[r].pc = "rp_start"
    /\ \E ok \in BOOLEAN, rmdone \in BOOLEAN :
        /\ (NameInUse(rq[r].cname) => ~ok)
        /\ (~ok => rmdone)
        /\ IF ok
           THEN /\ running' = running \cup {rq[r].cname}
                /\ rq' = [rq EXCEPT ![r] = [@ EXCEPT !.started = TRUE,
                            !.starts = @ + 1,
                            !.pending = IF rmdone THEN @ ELSE @ \cup {"rm"},
                            !.pc = "rp_health"]]
           ELSE /\ running' = running
                /\ rq' = [rq EXCEPT ![r] = [@ EXCEPT !.res = ReactFailure,
                                                      !.starts = @ + 1,
                                                      !.pc = "rp_cleanup"]]
    /\ UNCHANGED <<client, fs, exited, nextId>>
    /\ UNCHANGED nvars
    /\ UNCHANGED pvars

\* _start_react_container 2553-2634: up to 24 polls of `docker ps` and of
\* the dev server; returns when the server is ready, raises otherwise
RpHealth(r) ==
    /\ rq[r].pc = "rp_health"
    /\ \E o \in {"ready", "stopped", "timeout"} :
        /\ (rq[r].cname \notin running => o = "stopped")
        /\ IF o = "ready"
           THEN /\ rq' = [rq EXCEPT ![r] = [@ EXCEPT !.healthy = TRUE,
                                                      !.checks = @ + 1,
                                                      !.pc = "rp_capture"]]
                /\ UNCHANGED <<running, exited>>
           ELSE /\ rq' = [rq EXCEPT ![r] = [@ EXCEPT !.res = ReactFailure,
                                                      !.checks = @ + 1,
                                                      !.pc = "rp_cleanup"]]
                /\ IF o = "stopped" /\ rq[r].cname \in running
                   THEN /\ running' = running \ {rq[r].cname}
                        /\ exited' = exited \cup {rq[r].cname}
                   ELSE UNCHANGED <<running, exited>>
    /\ UNCHANGED <<client, fs, nextId>>
    /\ UNCHANGED nvars
    /\ UNCHANGED pvars

\* page.content() after the page of a route was loaded (line 2873)
Markup(route) == [kind |-> "markup", of |-> route]

\* the text stored for a route whose capture raised (line 2880)
CaptureError(route) == [kind |-> "Error capturing route", of |-> route]

\* the set of the elements of a list
Range(seq) == { seq[i] : i \in 1..Len(seq) }

\* 2733-2880: the dict filled by `for route in routes`; a route whose
\* navigation or capture raised gets the error text as its value
Screenshots(routes, failed) ==
    [route \in Range(routes) |->
        IF route \in failed THEN CaptureError(route) ELSE Markup(route)]

\* the `routes` argument: _execute_react_code passes ["/"] (line 1880),
\* the other callers settings.REACT_DEFAULT_ROUTES or the routes stored
\* with the task (routers/run.py 184, task_service.py 250)
RouteLists(entry) ==
    IF entry = "execute_code" THEN {<<"/">>}
    ELSE {<<"/">>, <<"/", "/about">>, <<"/about", "/about">>}

\* _capture_react_routes 2636-2884 and the return of line 2231, where the
\* `routes` argument is first read; launching the browser (2656-2658)
\* raises into the handler of line 2233
RpCapture(r) ==
    /\ rq[r].pc = "rp_capture"
    /\ \E routes \in RouteLists(rq[r].entry), launched \in BOOLEAN :
        \E failed \in SUBSET Range(routes) :
            /\ (~launched => failed = {})
            /\ rq' = [rq EXCEPT ![r] = [@ EXCEPT
                    !.routes = routes,
                    !.res = IF launched
                            THEN <<TRUE, "All routes captured successfully",
                                   "All routes captured successfully", 0,
                                   Screenshots(routes, failed)>>
                            ELSE ReactFailure,
                    !.pc = "rp_cleanup"]]
    /\ UNCHANGED <<client, fs, running, exited, nextId>>
    /\ UNCHANGED nvars
    /\ UNCHANGED pvars

\* _cleanup_react_project 2886-2909: `docker stop` awaited for at most 5 s,
\* shutil.rmtree
RpCleanup(r) ==
    /\ rq[r].pc = "rp_cleanup"
    /\ \E intime \in BOOLEAN :
        IF intime
        THEN /\ running' = running \ {rq[r].cname}
             /\ exited' = IF rq[r].cname \in running
                          THEN exited \cup {rq[r].cname} ELSE exited
             /\ rq' = [rq EXCEPT ![r] = [@ EXCEPT !.cleaned = TRUE,
                                                   !.pc = "ret"]]
        ELSE /\ UNCHANGED <<running, exited>>
             /\ rq' = [rq EXCEPT ![r] = [@ EXCEPT !.pending = @ \cup {"stop"},
                                                   !.cleaned = TRUE,
                                                   !.pc = "ret"]]
    /\ fs' = RmTree(fs, rq[r].dir)
    /\ UNCHANGED <<client, nextId>>
    /\ UNCHANGED nvars
    /\ UNCHANGED pvars

(***************************************************************************)
(* File-sandbox mode of the Python runners: prepare_sandbox_files (284-328) *)
(* before the program runs, collect_output_files (333-366) after it.       *)
(* Files lie at the top level of the sandbox directory, so a relative path *)
(* is a file name; names are already sanitized and carry an extension.     *)
(***************************************************************************)
\* largest number of writes of the program to the sandbox
MaxWrites == 2

\* py_filename (lines 556-562, 1291-1296) and the dependency manifest
ProgramFile == "main.py"
Manifest == "requirements.txt"

\* names the extractors find in the code and the question text (291-294)
InputNames == {"a.txt", "b.txt"}

\* names the program opens for writing
ProgramNames == {"a.txt", "b.txt", "out.txt"}

\* a file content: its first 5000 characters and what follows them
SampleContent == [head |-> "Sample line 1", rest |-> ""]
CodeContent == [head |-> "code", rest |-> ""]
ManifestContent == [head |-> "packages", rest |-> ""]

\* contents the program writes: the sample text again, a new short text,
\* a new text longer than the preview
ProgramContents ==
    { SampleContent,
      [head |-> "written", rest |-> ""],
      [head |-> "written", rest |-> "beyond the preview"] }

\* _get_file_preview_content, 273-282: the first 5000 characters
Preview(content) == content.head

\* _hash_content, 225-226: the md5 digest of the preview text
Hash(preview) == <<"md5", preview>>

\* snapshot.get(rel_path) of a path that is not in the snapshot
NoHash == <<>>

\* file_context of a run without input files (None at 296-297; 341-342
\* read it as an empty snapshot and no input files)
NoContext == [input_files |-> {}, snapshot |-> <<>>]

\* prepare_sandbox_files, 284-328: the files written into temp_dir
SandboxFiles(names) == [n \in names |-> SampleContent]

\* prepare_sandbox_files, 284-328: the returned context
prepare_sandbox_files(names) ==
    IF names = {} THEN NoContext
    ELSE [input_files |-> names,
          snapshot |-> [n \in names |-> Hash(Preview(SampleContent))]]

\* disk with the file `name` holding `content`
WriteFile(disk, name, content) ==
    [n \in DOMAIN disk \cup {name} |-> IF n = name THEN content ELSE disk[n]]

\* collect_output_files, 333-366
collect_output_files(disk, file_context, skip_files) ==
    LET snapshot == file_context.snapshot
        input_files == file_context.input_files
        file_type(n) == IF n \in input_files THEN "input" ELSE "generated"
        previous_hash(n) == IF n \in DOMAIN snapshot THEN snapshot[n] ELSE NoHash
        current_hash(n) == Hash(Preview(disk[n]))
        Kept(n) == file_type(n) = "input" \/ previous_hash(n) # current_hash(n)
    IN { [filename |-> n, content |-> Preview(disk[n]), type |-> file_type(n)] :
            n \in { m \in DOMAIN disk \ skip_files : Kept(m) } }

\* skip_files of the container runner (646) and of the host runner (1331)
SkipFiles(mode) ==
    IF mode = "docker" THEN {ProgramFile, Manifest} ELSE {ProgramFile}

SbIdle ==
    [pc |-> "idle", mode |-> "none", names |-> {}, deps |-> FALSE,
     disk |-> <<>>, ctx |-> NoContext, writes |-> 0, collected |-> {},
     net |-> FALSE]

\* a run with enable_file_mode (run_python_with_files, 370-384): the runner,
\* the names found in the code, whether the code imports a package
FilesInit ==
    \E mode \in {"docker", "host"}, names \in SUBSET InputNames,
       deps \in BOOLEAN :
        /\ (mode = "host" => ~deps)
        /\ sb = [SbIdle EXCEPT !.pc = "prepare", !.mode = mode,
                               !.names = names, !.deps = deps]

\* 564-586, 1298-1302: the program file, prepare_sandbox_files, and in the
\* container runner requirements.txt
SandboxPrepare ==
    /\ sb.pc = "prepare"
    /\ LET files == SandboxFiles(sb.names)
           d1 == WriteFile(files, ProgramFile, CodeContent)
           d2 == IF sb.deps THEN WriteFile(d1, Manifest, ManifestContent) ELSE d1
       IN sb' = [sb EXCEPT !.disk = d2,
                           !.ctx = prepare_sandbox_files(sb.names),
                           !.pc = IF sb.mode = "docker" THEN "start"
                                  ELSE "run"]
    /\ UNCHANGED <<syn, fn, dep, au>>
    /\ UNCHANGED nvars
    /\ UNCHANGED evars

\* 587-619: client.containers.run with network_disabled=False; the command
\* is `pip install ... && python ...` with a requirements.txt and
\* `python ...` without; sb.net is the network access of the container
ContainerRun ==
    /\ sb.pc = "start"
    /\ LET network_disabled == FALSE
       IN sb' = [sb EXCEPT !.net = ~network_disabled,
                           !.pc = IF sb.deps THEN "install" ELSE "run"]
    /\ UNCHANGED <<syn, fn, dep, au>>
    /\ UNCHANGED nvars
    /\ UNCHANGED evars

\* the first half of the command of line 589 has ended: the packages are
\* installed, the same container goes on with the program
PipInstall ==
    /\ sb.pc = "install"
    /\ sb' = [sb EXCEPT !.pc = "run"]
    /\ UNCHANGED <<syn, fn, dep, au>>
    /\ UNCHANGED nvars
    /\ UNCHANGED evars

\* the program writes a file of the sandbox
ProgramWrites ==
    /\ sb.pc = "run"
    /\ sb.writes < MaxWrites
    /\ \E name \in ProgramNames, content \in ProgramContents :
        sb' = [sb EXCEPT !.disk = WriteFile(sb.disk, name, content),
                         !.writes = @ + 1]
    /\ UNCHANGED <<syn, fn, dep, au>>
    /\ UNCHANGED nvars
    /\ UNCHANGED evars

\* 643-647, 1328-1332: the program has exited, the runner collects
CollectOutputFiles ==
    /\ sb.pc = "run"
    /\ sb' = [sb EXCEPT
                !.collected = collect_output_files(sb.disk, sb.ctx,
                                                   SkipFiles(sb.mode)),
                !.pc = "end"]
    /\ UNCHANGED <<syn, fn, dep, au>>
    /\ UNCHANGED nvars
    /\ UNCHANGED evars

FilesNext ==
    \/ SandboxPrepare
    \/ ContainerRun
    \/ PipInstall
    \/ ProgramWrites
    \/ CollectOutputFiles


(***************************************************************************)
(* Input synthesizers: _detect_c_input_requirements (1349-1383),           *)
(* _detect_java_input_requirements (1500-1536), _wrap_code_for_input       *)
(* (1044-1215).  A source text is the list of the tokens that matter to    *)
(* the patterns; a token and a synthesized value are sequences of          *)
(* one-character strings.                                                  *)
(***************************************************************************)
\* largest number of scanf / Scanner calls of a compiled-language source
MaxCalls == 3
\* largest number of input( calls of a Python source
MaxInputs == 6
\* largest number of topic words of a Python source
MaxWords == 3

\* str(n) of a natural number (lines 1095, 1177, 1525)
Digit(n) == <<"0","1","2","3","4","5","6","7","8","9">>[n + 1]

RECURSIVE Str(_)
Str(n) == IF n < 10 THEN <<Digit(n)>> ELSE Str(n \div 10) \o <<Digit(n % 10)>>

\* the concatenation of a list of lists
RECURSIVE Flatten(_)
Flatten(ss) == IF ss = <<>> THEN <<>> ELSE Head(ss) \o Flatten(Tail(ss))

(***************************************************************************)
(* C: a source is the list of the format strings of its scanf calls; the   *)
(* other arguments of a call hold neither '%' nor ')'.                     *)
(***************************************************************************)
CFormats ==
    { <<"%","d">>,
      <<"%","l","d">>,
      <<"%","l","f">>,
      <<"%","s">>,
      <<"%","d"," ","%","d">> }

\* the character class of the pattern at line 1360
SpecChars ==
    {"d","i","o","u","x","X","e","E","f","F","g","G","a","A","c","s","p","n","%"}

\* re.findall(r'%[diouxXeEfFgGaAcspn%]', match), line 1360: the matches from
\* left to right, without overlap, each given by its second character
RECURSIVE FindSpecs(_, _)
FindSpecs(s, i) ==
    IF i > Len(s) THEN <<>>
    ELSE IF s[i] = "%" /\ i < Len(s) /\ s[i + 1] \in SpecChars
         THEN <<s[i + 1]>> \o FindSpecs(s, i + 2)
         ELSE FindSpecs(s, i + 1)

\* 1365-1377: the value supplied for one specifier
SpecValue(c) ==
    IF c \in {"d","i","o","u","x","X"} THEN <<"4","2">>
    ELSE IF c \in {"f","e","E","g","G","a","A"} THEN <<"3",".","1","4">>
    ELSE IF c = "c" THEN <<"A">>
    ELSE IF c = "s" THEN <<"t","e","s","t">>
    ELSE <<"4","2">>

\* 1357-1377: the values of one scanf call, "%%" skipped
CallValues(fmt) ==
    LET specs == FindSpecs(fmt, 1)
        kept == SelectSeq(specs, LAMBDA c : c # "%")
    IN [i \in 1..Len(kept) |-> SpecValue(kept[i])]

\* _detect_c_input_requirements, 1349-1383
detect_c_input_requirements(src) ==
    LET inputs_needed == Flatten([i \in 1..Len(src) |-> CallValues(src[i])])
    IN IF inputs_needed = <<>> /\ Len(src) > 0
       THEN << <<"4","2">>, <<"1","0">> >>
       ELSE inputs_needed

\* number of values one scanf call reads: its conversions, "%%" and the
\* length modifiers l, h not counted
RECURSIVE Conversions(_, _)
Conversions(s, i) ==
    IF i > Len(s) THEN 0
    ELSE IF s[i] = "%" /\ i < Len(s)
         THEN IF s[i + 1] = "%" THEN Conversions(s, i + 2)
              ELSE 1 + Conversions(s, i + 1)
         ELSE Conversions(s, i + 1)

(***************************************************************************)
(* Java: a source declares one Scanner variable and calls its methods.     *)
(***************************************************************************)
ScannerVars == { <<"s","c","a","n","n","e","r">>, <<"s","c">>, <<"m","y","S","c","a","n","n","e","r">> }
ScannerWord == <<"s","c","a","n","n","e","r">>

ScannerMethods == {"nextInt", "nextDouble", "nextLine", "next"}

\* the methods of the pattern at line 1506
NumericNext ==
    {"nextInt", "nextDouble", "nextFloat", "nextLong", "nextShort", "nextByte"}

\* str.lower() / re.IGNORECASE on the letters that occur in the names
Lower(s) == [i \in 1..Len(s) |-> IF s[i] = "S" THEN "s" ELSE s[i]]

\* the text "scanner." ends at the dot of the call (1506, 1511, 1515)
OnScanner(var) ==
    Len(var) >= Len(ScannerWord)
    /\ SubSeq(Lower(var), Len(var) - Len(ScannerWord) + 1, Len(var)) = ScannerWord

\* 1522-1525: values[i % len(values)]
IntValues == <<42, 10, 5, 7, 3, 15, 20, 25, 30>>

\* _detect_java_input_requirements, 1500-1536
detect_java_input_requirements(src) ==
    LET Count(ms) == Len(SelectSeq(src.calls,
                         LAMBDA m : OnScanner(src.var) /\ m \in ms))
        next_int_count == Count(NumericNext)
        next_line_count == Count({"nextLine"})
        next_count == Count({"next"})
        inputs_needed ==
            [i \in 1..next_int_count |->
                Str(IntValues[((i - 1) % Len(IntValues)) + 1])]
            \o [i \in 1..(next_line_count + next_count) |-> <<"t","e","s","t">>]
    IN IF inputs_needed = <<>> /\ src.uses_scanner
       THEN << <<"4","2">>, <<"1","0">> >>
       ELSE inputs_needed

(***************************************************************************)
(* Python: a source is a set of topic words and the list of its input      *)
(* calls, each plain or wrapped in int( ).                                 *)
(***************************************************************************)
PlainCall == <<"i","n","p","u","t","(">>
IntCall == <<"i","n","t","(","i","n","p","u","t","(">>
Vocabulary ==
    { <<"f","a","c","t","o","r","i","a","l">>,
      <<"f","i","b","o","n","a","c","c","i">>,
      <<"r","e","c","u","r","s","i","v","e">>,
      <<"p","o","w","e","r">>,
      <<"m","a","t","r","i","x">>,
      <<"r","e","v","e","r","s","e">>,
      <<"s","t","r","i","n","g">>,
      <<"t","o","t","a","l","_","m","a","r","k","s">>,
      <<"p","a","s","s">>,
      <<"s","p","l","i","t">>,
      <<"m","e","n","u">>,
      <<"c","h","o","i","c","e">>,
      <<"n","u","m"," ","%"," ","1","0">> }

\* `needle in code`: the needle lies inside one token of the source
InCode(code, needle) ==
    \E i \in 1..Len(code) : Contains(code[i], needle)

\* len(re.findall(pattern, code)) for a pattern that matches the literal
\* text `needle` and does not span tokens
RECURSIVE CountIn(_, _, _)
CountIn(s, needle, i) ==
    IF i + Len(needle) - 1 > Len(s) THEN 0
    ELSE IF SubSeq(s, i, i + Len(needle) - 1) = needle
         THEN 1 + CountIn(s, needle, i + Len(needle))
         ELSE CountIn(s, needle, i + 1)

RECURSIVE CountMatches(_, _)
CountMatches(code, needle) ==
    IF code = <<>> THEN 0
    ELSE CountIn(Head(code), needle, 1) + CountMatches(Tail(code), needle)

\* 1061: re.search(r'[%\/\/\*\-\+]', code)
HasOperator(code) ==
    \E i \in 1..Len(code) : \E j \in 1..Len(code[i]) :
        code[i][j] \in {"%", "/", "*", "-", "+"}

\* the literals of lines 1054-1087
Kw ==
    [ factorial |-> <<"f","a","c","t","o","r","i","a","l">>,
      fact |-> <<"f","a","c","t">>,
      fibonacci |-> <<"f","i","b","o","n","a","c","c","i">>,
      fib |-> <<"f","i","b">>,
      recursive |-> <<"r","e","c","u","r","s","i","v","e">>,
      recursion |-> <<"r","e","c","u","r","s","i","o","n">>,
      power |-> <<"p","o","w","e","r">>,
      starstar |-> <<"*","*">>,
      powcall |-> <<"p","o","w","(">>,
      matrix |-> <<"m","a","t","r","i","x">>,
      array |-> <<"a","r","r","a","y">>,
      reverse |-> <<"r","e","v","e","r","s","e">>,
      palindrome |-> <<"p","a","l","i","n","d","r","o","m","e">>,
      str |-> <<"s","t","r">>,
      string |-> <<"s","t","r","i","n","g">>,
      dotreverse |-> <<".","r","e","v","e","r","s","e","(",")">>,
      slice |-> <<"[",":",":","-","1","]">>,
      student |-> <<"s","t","u","d","e","n","t">>,
      marks |-> <<"m","a","r","k","s">>,
      average |-> <<"a","v","e","r","a","g","e">>,
      total |-> <<"t","o","t","a","l">>,
      pass |-> <<"p","a","s","s">>,
      fail |-> <<"f","a","i","l">>,
      result |-> <<"r","e","s","u","l","t">>,
      split |-> <<"s","p","l","i","t">>,
      subjects |-> <<"s","u","b","j","e","c","t","s">>,
      menu |-> <<"m","e","n","u">>,
      choice |-> <<"c","h","o","i","c","e">>,
      option |-> <<"o","p","t","i","o","n">>,
      select |-> <<"s","e","l","e","c","t">>,
      whiletrue |-> <<"w","h","i","l","e"," ","t","r","u","e">>,
      num |-> <<"n","u","m">>,
      number |-> <<"n","u","m","b","e","r">>,
      digit |-> <<"d","i","g","i","t">>,
      nummod |-> <<"n","u","m"," ","%"," ","1","0">>,
      numdiv |-> <<"n","u","m"," ","/","/"," ","1","0">> ]

\* 1054-1087: the topic flags of a source text
Flags(code) ==
    LET has(w) == InCode(code, w)
        is_factorial == has(Kw.factorial) \/ has(Kw.fact)
        is_fibonacci == has(Kw.fibonacci) \/ has(Kw.fib)
        is_recursive == has(Kw.recursive) \/ has(Kw.recursion)
        is_power == has(Kw.power) \/ has(Kw.starstar) \/ has(Kw.powcall)
        is_matrix == has(Kw.matrix) \/ has(Kw.array)
        uses_int_input == InCode(code, IntCall)
        uses_numeric_ops ==
            HasOperator(code) /\ (has(Kw.num) \/ has(Kw.number) \/ has(Kw.digit))
        is_string_op ==
            \/ /\ has(Kw.reverse) \/ has(Kw.palindrome)
               /\ ~uses_int_input
               /\ ~uses_numeric_ops
               /\ has(Kw.str) \/ has(Kw.string) \/ has(Kw.dotreverse) \/ has(Kw.slice)
            \/ has(Kw.string) /\ has(Kw.reverse)
        is_student_marks ==
            (has(Kw.student) \/ has(Kw.marks)) /\ (has(Kw.average) \/ has(Kw.total))
        is_pass_fail == has(Kw.pass) \/ has(Kw.fail) \/ has(Kw.result)
        uses_split_for_marks ==
            has(Kw.split) /\ (has(Kw.marks) \/ has(Kw.subjects))
        is_menu_program ==
            \/ has(Kw.menu) /\ (has(Kw.choice) \/ has(Kw.option) \/ has(Kw.select))
            \/ has(Kw.whiletrue) /\ has(Kw.menu)
        is_numeric_reverse ==
            has(Kw.reverse) /\ (uses_int_input \/ uses_numeric_ops
                                \/ has(Kw.nummod) \/ has(Kw.numdiv))
    IN [ is_factorial |-> is_factorial, is_fibonacci |-> is_fibonacci,
         is_recursive |-> is_recursive, is_power |-> is_power,
         is_matrix |-> is_matrix, uses_int_input |-> uses_int_input,
         is_string_op |-> is_string_op, is_student_marks |-> is_student_marks,
         is_pass_fail |-> is_pass_fail,
         uses_split_for_marks |-> uses_split_for_marks,
         is_menu_program |-> is_menu_program,
         is_numeric_reverse |-> is_numeric_reverse ]

\* 1094-1105: the menu sequence "1", "Sample Item <n>", "2", "3", repeated
MenuInputs(input_count) ==
    [i \in 1..input_count |->
        CASE (i - 1) % 4 = 0 -> <<"1">>
          [] (i - 1) % 4 = 1 -> <<"S","a","m","p","l","e"," ","I","t","e","m"," ">> \o Str(((i - 1) \div 4) + 1)
          [] (i - 1) % 4 = 2 -> <<"2">>
          [] (i - 1) % 4 = 3 -> <<"3">>]

\* 1110-1116: one line of three marks per student
SplitMarks(input_count) ==
    [i \in 1..(IF input_count = 0 THEN 1 ELSE input_count) |->
        CASE (i - 1) % 3 = 0 -> <<"7","8"," ","8","2"," ","7","5">>
          [] (i - 1) % 3 = 1 -> <<"3","5"," ","4","2"," ","3","8">>
          [] (i - 1) % 3 = 2 -> <<"5","5"," ","4","8"," ","5","2">>]

\* 1123-1131: three marks per student
StudentMarks(student_num) ==
    CASE student_num % 3 = 0 -> << <<"7","8">>, <<"8","2">>, <<"7","5">> >>
      [] student_num % 3 = 1 -> << <<"3","5">>, <<"4","2">>, <<"3","8">> >>
      [] student_num % 3 = 2 -> << <<"5","5">>, <<"4","8">>, <<"5","2">> >>

\* 1118-1135: marks of input_count // 3 students (one student below three
\* inputs), then "60" up to input_count
SeparateMarks(input_count) ==
    LET students_count == IF input_count >= 3 THEN input_count \div 3 ELSE 1
        marks == Flatten([s \in 1..students_count |-> StudentMarks(s - 1)])
        missing == IF Len(marks) < input_count THEN input_count - Len(marks) ELSE 0
    IN marks \o [i \in 1..missing |-> <<"6","0">>]

\* 1171-1178: the default values "10", "20", str(5 + (i % 5))
DefaultInputs(input_count) ==
    [i \in 1..input_count |->
        IF i = 1 THEN <<"1","0">>
        ELSE IF i = 2 THEN <<"2","0">>
        ELSE Str(5 + ((i - 1) % 5))]

\* 1093-1178: the values chosen by the first topic branch that applies
ChooseInputs(f, input_count) ==
    LET all(v) == [i \in 1..input_count |-> v]
    IN IF f.is_menu_program THEN MenuInputs(input_count)
       ELSE IF f.is_student_marks /\ f.is_pass_fail
            THEN IF f.uses_split_for_marks THEN SplitMarks(input_count)
                 ELSE SeparateMarks(input_count)
       ELSE IF f.is_factorial \/ f.is_power THEN all(<<"5">>)
       ELSE IF f.is_fibonacci THEN all(<<"1","0">>)
       ELSE IF f.is_recursive THEN all(<<"5">>)
       ELSE IF f.is_numeric_reverse THEN all(<<"1","2","3","4","5">>)
       ELSE IF f.is_string_op
            THEN [i \in 1..input_count |-> IF i = 1 THEN <<"h","e","l","l","o">> ELSE <<"w","o","r","l","d">>]
       ELSE IF f.is_matrix THEN all(<<"3">>)
       ELSE DefaultInputs(input_count)

\* the chosen values kept as they are (line 1181 left out)
TrimToCount_Keep(mock_inputs, input_count) == mock_inputs

\* 1181: mock_inputs[:input_count]
TrimToCount(mock_inputs, input_count) == Prefix(mock_inputs, input_count)

Digits == {"0","1","2","3","4","5","6","7","8","9"}

\* str.strip() of the blanks at both ends
RECURSIVE Strip(_)
Strip(s) ==
    IF s = <<>> THEN s
    ELSE IF Head(s) = " " THEN Strip(Tail(s))
    ELSE IF s[Len(s)] = " " THEN Strip(SubSeq(s, 1, Len(s) - 1))
    ELSE s

\* int(value) does not raise: blanks around, an optional sign, digits
\* (the values of the wrapper hold no underscore)
ParsesAsInt(value) ==
    LET t == Strip(value)
        d == IF t # <<>> /\ Head(t) \in {"+", "-"} THEN Tail(t) ELSE t
    IN d # <<>> /\ \A i \in 1..Len(d) : d[i] \in Digits

\* the chosen values handed on without the check of line 1184
EnsureNumeric_Off(mock_inputs, uses_int_input) == mock_inputs

\* 1183-1191: with int(input( in the code every value that int() rejects
\* is replaced by "12345"
EnsureNumeric(mock_inputs, uses_int_input) ==
    IF uses_int_input
    THEN [i \in 1..Len(mock_inputs) |->
            IF ParsesAsInt(mock_inputs[i]) THEN mock_inputs[i] ELSE <<"1","2","3","4","5">>]
    ELSE mock_inputs

\* the literal of the pattern r'\binput\s*\(' (1049, 1089)
InputCall == PlainCall

\* _wrap_code_for_input, 1044-1215: the list embedded as _input_values;
\* a code without input( is returned unwrapped (1049-1050)
wrap_code_for_input(code) ==
    LET input_count == CountMatches(code, InputCall)
        f == Flags(code)
    IN IF input_count = 0 THEN <<>>
       ELSE EnsureNumeric(TrimToCount(ChooseInputs(f, input_count), input_count),
                          f.uses_int_input)

\* the text of a Python source: its topic words, then its input calls
PyCode(words, calls) ==
    LET W == CHOOSE seq \in [1..Cardinality(words) -> words] :
                \A w \in words : \E i \in 1..Cardinality(words) : seq[i] = w
    IN W \o calls

\* the input calls of a source: none, the first or all wrapped in int( )
PyCalls(k, casts) ==
    [i \in 1..k |->
        IF casts = "all" \/ (casts = "first" /\ i = 1) THEN IntCall ELSE PlainCall]

Sequences_UpTo(S, n) == UNION { [1..m -> S] : m \in 0..n }

SynIdle == [pc |-> "idle", lang |-> "none", src |-> <<>>, k |-> 0, values |-> <<>>]

\* the sources handed to the synthesizers
SynInit ==
    \/ \E src \in Sequences_UpTo(CFormats, MaxCalls) :
        syn = [SynIdle EXCEPT !.pc = "source", !.lang = "c", !.src = src,
                              !.k = Len(src)]
    \/ \E var \in ScannerVars, calls \in Sequences_UpTo(ScannerMethods, MaxCalls),
          decl \in BOOLEAN :
        /\ (calls # <<>> => decl)
        /\ syn = [SynIdle EXCEPT !.pc = "source", !.lang = "java",
                    !.src = [var |-> var, calls |-> calls, uses_scanner |-> decl],
                    !.k = Len(calls)]
    \/ \E k \in 0..MaxInputs, casts \in {"none", "first", "all"},
          words \in SUBSET Vocabulary :
        /\ Cardinality(words) <= MaxWords
        /\ (k = 0 => casts = "none")
        /\ syn = [SynIdle EXCEPT !.pc = "source", !.lang = "python",
                    !.src = PyCode(words, PyCalls(k, casts)), !.k = k]

\* 1435: input_values = self._detect_c_input_requirements(code)
DetectC ==
    /\ syn.pc = "source"
    /\ syn.lang = "c"
    /\ syn' = [syn EXCEPT !.values = detect_c_input_requirements(syn.src),
                          !.pc = "done"]
    /\ UNCHANGED <<sb, fn, dep, au>>
    /\ UNCHANGED nvars
    /\ UNCHANGED evars

\* 1588: input_values = self._detect_java_input_requirements(code)
DetectJava ==
    /\ syn.pc = "source"
    /\ syn.lang = "java"
    /\ syn' = [syn EXCEPT !.values = detect_java_input_requirements(syn.src),
                          !.pc = "done"]
    /\ UNCHANGED <<sb, fn, dep, au>>
    /\ UNCHANGED nvars
    /\ UNCHANGED evars

\* 567, 1285: wrapped_code = self._wrap_code_for_input(code)
WrapCode ==
    /\ syn.pc = "source"
    /\ syn.lang = "python"
    /\ syn' = [syn EXCEPT !.values = wrap_code_for_input(syn.src),
                          !.pc = "done"]
    /\ UNCHANGED <<sb, fn, dep, au>>
    /\ UNCHANGED nvars
    /\ UNCHANGED evars

SynNext == DetectC \/ DetectJava \/ WrapCode

(***************************************************************************)
(* File names: _sanitize_filename (61-70) and the path prepare_sandbox_    *)
(* files (302-309) writes to.  A name is a sequence of characters; the     *)
(* names come from string literals of the program and from the question    *)
(* text, so every character can occur.                                     *)
(***************************************************************************)
MaxNameLen == 7

\* a letter, the dot, both separators and a blank
NameChars == {"a", ".", "/", "\\", " "}

\* non-empty names (`if filename:`, line 117)
FileNames == Sequences_UpTo(NameChars, MaxNameLen) \ {<<>>}

\* str.lstrip(chars), str.rstrip(chars), str.strip(chars)
RECURSIVE LStrip(_, _)
LStrip(s, chars) ==
    IF s # <<>> /\ Head(s) \in chars THEN LStrip(Tail(s), chars) ELSE s

RECURSIVE RStrip(_, _)
RStrip(s, chars) ==
    IF s # <<>> /\ s[Len(s)] \in chars
    THEN RStrip(SubSeq(s, 1, Len(s) - 1), chars) ELSE s

StripOf(s, chars) == RStrip(LStrip(s, chars), chars)

\* line 62: re.sub(r'[^a-zA-Z0-9_\-\.\/]', '_', ...); of the characters of
\* the model only the blank and the backslash are outside the class
ReplaceUnsafe(s) ==
    [i \in 1..Len(s) |-> IF s[i] \in {" ", "\\"} THEN "_" ELSE s[i]]

\* line 67: re.sub(r'\.\.(\/|\\)', '', sanitized): one pass from the left
\* over the text, the matches do not overlap
RECURSIVE RemoveTraversal(_)
RemoveTraversal(s) ==
    IF Len(s) < 3 THEN s
    ELSE IF s[1] = "." /\ s[2] = "." /\ s[3] \in {"/", "\\"}
         THEN RemoveTraversal(SubSeq(s, 4, Len(s)))
         ELSE <<s[1]>> \o RemoveTraversal(Tail(s))

\* ExecutorService._sanitize_filename, lines 61-70
sanitize_filename(filename) ==
    LET replaced == ReplaceUnsafe(StripOf(filename, {" "}))
        stripped == StripOf(replaced, {"."})
        named == IF stripped = <<>>
                 THEN <<"o","u","t","p","u","t",".","t","x","t">>
                 ELSE stripped
        removed == RemoveTraversal(named)
        sanitized == IF removed # <<>> /\ removed[1] \in {"/", "\\"}
                     THEN LStrip(removed, {"/", "\\"})
                     ELSE removed
    IN IF sanitized = <<>> THEN <<"f","i","l","e",".","t","x","t">>
       ELSE sanitized

\* str.rfind(c), counted from 1; 0 when c does not occur
LastIndex(s, c) ==
    IF \E i \in 1..Len(s) : s[i] = c
    THEN CHOOSE i \in 1..Len(s) :
            s[i] = c /\ \A j \in (i + 1)..Len(s) : s[j] # c
    ELSE 0

\* os.path.splitext(p)[1] is not empty: the last dot lies in the last
\* component and is not one of its leading dots
HasExtension(p) ==
    LET sep == LastIndex(p, "/")
        dot == LastIndex(p, ".")
    IN dot > sep /\ \E k \in (sep + 1)..(dot - 1) : p[k] # "."

\* 303-309: the name below temp_dir that os.path.join(temp_dir, sanitized)
\* addresses, ".txt" added to a name without extension
SandboxPath(sanitized) ==
    IF HasExtension(sanitized) THEN sanitized
    ELSE sanitized \o <<".","t","x","t">>

FnIdle == [pc |-> "idle", name |-> <<>>, sanitized |-> <<>>, path |-> <<>>]

FnInit ==
    fn \in { [pc |-> "in", name |-> n, sanitized |-> <<>>, path |-> <<>>] :
                n \in FileNames }

\* one turn of the loop of lines 302-309
PrepareName ==
    /\ fn.pc = "in"
    /\ fn' = [fn EXCEPT !.sanitized = sanitize_filename(fn.name),
                        !.path = SandboxPath(sanitize_filename(fn.name)),
                        !.pc = "done"]
    /\ UNCHANGED <<sb, syn, dep, au>>
    /\ UNCHANGED nvars
    /\ UNCHANGED evars

(***************************************************************************)
(* The dependency manifest of a web project: _infer_npm_dependencies       *)
(* (872-914) when package.json is written, and the packages the Node       *)
(* auto-repair adds (2021-2029).  A manifest maps package names to version *)
(* constraints.                                                            *)
(***************************************************************************)
\* package names that the scan of the sources or the logs of the server
\* can yield: two of the table, one unknown, two of the framework
Packages == {"express", "cors", "left-pad", "react", "vite"}

\* known_versions, 880-902 (the entries for the names of the model)
known_versions == ("express" :> "^4.18.2") @@ ("cors" :> "^2.8.5")

\* line 910: the packages the scan never adds
FrameworkBuiltins == {"react", "react-dom", "vite", "@vitejs/plugin-react"}

\* base of the Node runner (1939) and of the React runner (2251-2255)
BaseDeps(kind) ==
    IF kind = "react"
    THEN ("react" :> "^18.2.0") @@ ("react-dom" :> "^18.2.0")
         @@ ("react-router-dom" :> "^6.20.0")
    ELSE <<>>

\* _infer_npm_dependencies, 872-914; scanned is what
\* _extract_npm_packages_from_source found in the project files
infer_npm_dependencies(scanned, base) ==
    [pkg \in DOMAIN base \cup (scanned \ FrameworkBuiltins) |->
        IF pkg \in DOMAIN base THEN base[pkg]
        ELSE IF pkg \in DOMAIN known_versions THEN known_versions[pkg]
        ELSE "*"]

\* 2021-2026: deps[pkg] = inferred.get(pkg, "*") for the missing packages
\* that are not in the manifest yet
AddMissing(deps, inferred, missing_pkgs) ==
    [pkg \in DOMAIN deps \cup missing_pkgs |->
        IF pkg \in DOMAIN deps THEN deps[pkg]
        ELSE IF pkg \in DOMAIN inferred THEN inferred[pkg]
        ELSE "*"]

DepIdle ==
    [pc |-> "idle", kind |-> "none", scanned |-> {}, inferred |-> <<>>,
     manifest |-> <<>>]

DepInit ==
    \E kind \in {"node", "react"}, scanned \in SUBSET Packages :
        dep = [DepIdle EXCEPT !.pc = "infer", !.kind = kind,
                              !.scanned = scanned]

\* 1937-1950 (Node), 2249-2272 (React): package.json is written
WritePackageJson ==
    /\ dep.pc = "infer"
    /\ LET inferred == infer_npm_dependencies(dep.scanned, BaseDeps(dep.kind))
       IN dep' = [dep EXCEPT !.inferred = inferred, !.manifest = inferred,
                             !.pc = "written"]
    /\ UNCHANGED <<sb, syn, fn, au>>
    /\ UNCHANGED nvars
    /\ UNCHANGED evars

\* 2011-2029: the Node server failed its health check and its logs name
\* missing modules; package.json is written again
RepairPackageJson ==
    /\ dep.pc = "written"
    /\ dep.kind = "node"
    /\ \E missing_pkgs \in SUBSET Packages \ {{}} :
        dep' = [dep EXCEPT
                  !.manifest = AddMissing(dep.manifest, dep.inferred, missing_pkgs),
                  !.pc = "repaired"]
    /\ UNCHANGED <<sb, syn, fn, au>>
    /\ UNCHANGED nvars
    /\ UNCHANGED evars

DepNext == WritePackageJson \/ RepairPackageJson

(***************************************************************************)
(* Ownership of uploads: middleware/auth.py verify_upload_ownership and    *)
(* the routes that read an upload for an authenticated user.               *)
(***************************************************************************)
Users == {1, 2}

\* Upload.user_id is None
NoOwner == 0

UploadIds == {1, 2, 3}

Granted(ids) == [status |-> 200, uploads |-> ids]
Rejected(code) == [status |-> code, uploads |-> {}]

\* the same function without the comparison of line 107
verify_upload_ownership_AnyOwner(table, upload_id, current_user) ==
    IF upload_id \notin DOMAIN table THEN Rejected(404)
    ELSE Granted({upload_id})

\* middleware/auth.py 79-116
verify_upload_ownership(table, upload_id, current_user) ==
    IF upload_id \notin DOMAIN table THEN Rejected(404)
    ELSE IF table[upload_id] # NoOwner /\ table[upload_id] # current_user
         THEN Rejected(403)
    ELSE Granted({upload_id})

AuIdle ==
    [pc |-> "idle", table |-> <<>>, user |-> NoOwner, route |-> "none",
     id |-> 0, response |-> Rejected(0)]

\* the rows of the uploads table with their user_id, and the user of the
\* token
AuInit ==
    \E ids \in SUBSET UploadIds, user \in Users :
        \E table \in [ids -> Users \cup {NoOwner}] :
            au = [AuIdle EXCEPT !.pc = "request", !.table = table,
                                !.user = user]

\* routers/parse.py 17-30 (likewise analyze.py 26, run.py 30, compose.py
\* 27, tasks.py 27)
ParseFile ==
    /\ au.pc = "request"
    /\ \E file_id \in UploadIds :
        au' = [au EXCEPT !.route = "parse_file", !.id = file_id,
                 !.response = verify_upload_ownership(au.table, file_id, au.user),
                 !.pc = "done"]
    /\ UNCHANGED <<sb, syn, fn, dep>>
    /\ UNCHANGED nvars
    /\ UNCHANGED evars

\* routers/assignments.py 28-37: filter(Upload.user_id == current_user.id)
GetUserAssignments ==
    /\ au.pc = "request"
    /\ au' = [au EXCEPT !.route = "get_user_assignments",
                !.response = Granted({ i \in DOMAIN au.table :
                                        au.table[i] = au.user }),
                !.pc = "done"]
    /\ UNCHANGED <<sb, syn, fn, dep>>
    /\ UNCHANGED nvars
    /\ UNCHANGED evars

AuthNext == ParseFile \/ GetUserAssignments


(***************************************************************************)
(* Specifications.                                                         *)
(***************************************************************************)
NIdle ==
    /\ nOut = <<<<>>>>
    /\ nRes1 = <<>>
    /\ nRes2 = <<>>
    /\ nPc = "idle"

EIdle ==
    /\ client = TRUE
    /\ rq = [r \in Reqs |-> Blank]
    /\ fs = {}
    /\ running = {}
    /\ exited = {}
    /\ nextId = 1

\* the steps of one request (and of the docker commands it left behind)
Step(r) ==
    \/ ExecuteCode(r)
    \/ ExecuteReactProject(r)
    \/ Return(r)
    \/ PdSetup(r)
    \/ PdRun(r)
    \/ PdWait(r)
    \/ PdFinally(r)
    \/ PpSetup(r)
    \/ PpRun(r)
    \/ CSetup(r)
    \/ CCompile(r)
    \/ CRun(r)
    \/ JSetup(r)
    \/ JCompile(r)
    \/ JRun(r)
    \/ HtmlSetup(r)
    \/ HtmlRender(r)
    \/ NodeSetup(r)
    \/ NodeStart(r)
    \/ NodeHealth(r)
    \/ NodeRepair(r)
    \/ NodeCapture(r)
    \/ NodeFinally(r)
    \/ RpSetup(r)
    \/ RpStart(r)
    \/ RpHealth(r)
    \/ RpCapture(r)
    \/ RpCleanup(r)
    \/ CliCompletes(r)

Next == \E r \in Reqs : Step(r)

PIdle ==
    /\ sb = SbIdle
    /\ syn = SynIdle
    /\ fn = FnIdle
    /\ dep = DepIdle
    /\ au = AuIdle

Init == EInit /\ NIdle /\ PIdle

Spec == Init /\ [][Next]_vars

\* one request under the scheduling of the event loop: a coroutine whose
\* awaited operation has finished or has run into its timeout is resumed.
\* A compiler that does not terminate leaves the request at c_blocked or
\* j_blocked, where no step is enabled.
SpecLive == Init /\ [][Step(1)]_vars /\ WF_vars(Step(1))

(***************************************************************************)
(* Cancellation of the task that runs a request.  asyncio raises           *)
(* CancelledError at the await the runner is suspended in.  CancelledError *)
(* is a BaseException: the `except asyncio.TimeoutError` and               *)
(* `except Exception` clauses of the runners do not catch it, their        *)
(* `finally` blocks run, and the error then leaves the runner.  The        *)
(* Docker Python runner (539-674) calls the blocking docker client and has *)
(* no await to be cancelled in.                                            *)
(***************************************************************************)

\* the files the finally block of the language's runner deletes
\* (1337-1343 rmtree; 1486-1498 and 1655-1668 unlink)
FinallyFiles(q) ==
    CASE q.lang = "java" -> JUnlink(fs, q.cls)
      [] q.lang \in {"c", "cpp"} -> CUnlink(fs, q.dir)
      [] OTHER -> RmTree(fs, q.dir)

\* 1304-1315, 1417-1427, 1441-1452, 1569-1577, 1599-1610: cancelled in
\* `await ....communicate()` of the compiler or of the program.  The kill()
\* calls are in the `except asyncio.TimeoutError` clauses only (1316-1318,
\* 1453-1455, 1611-1613), so the process stays alive; the finally block
\* deletes the files.
CancelProgram(r) ==
    /\ rq[r].pc \in {"pp_run", "c_compile", "c_blocked", "c_run",
                      "j_compile", "j_blocked", "j_run"}
    /\ fs' = FinallyFiles(rq[r])
    /\ rq' = [rq EXCEPT ![r] = [@ EXCEPT !.child = TRUE, !.pc = "cancelled"]]
    /\ UNCHANGED <<client, running, exited, nextId>>
    /\ UNCHANGED nvars
    /\ UNCHANGED pvars

\* 1807-1829: cancelled inside `async with async_playwright()`; leaving the
\* block stops the browser, and the finally block (1834-1840) removes the
\* directory
CancelHtml(r) ==
    /\ rq[r].pc = "html_render"
    /\ fs' = RmTree(fs, rq[r].dir)
    /\ rq' = [rq EXCEPT ![r] = [@ EXCEPT !.pc = "cancelled"]]
    /\ UNCHANGED <<client, running, exited, nextId>>
    /\ UNCHANGED nvars
    /\ UNCHANGED pvars

\* 1983 (start_container) and 2142-2153: cancelled in
\* `await proc.communicate()` of `docker run -d`.  The docker client process
\* is not killed.  The finally block awaits `docker rm -f` for 8 s: it
\* removes the container when the runtime has created it by then; a
\* container the runtime creates afterwards (late) stays.
CancelNodeStart(r) ==
    /\ rq[r].pc \in {"node_start", "node_restart"}
    /\ \E late \in BOOLEAN, intime \in BOOLEAN :
        /\ (late => intime /\ ~NameInUse(rq[r].cname))
        /\ IF late
           THEN /\ running' = running \cup {rq[r].cname}
                /\ exited' = exited
                /\ rq' = [rq EXCEPT ![r] = [@ EXCEPT !.child = TRUE,
                            !.started = TRUE, !.cleaned = TRUE,
                            !.pc = "cancelled"]]
           ELSE IF intime
           THEN /\ running' = running \ {rq[r].cname}
                /\ exited' = exited \ {rq[r].cname}
                /\ rq' = [rq EXCEPT ![r] = [@ EXCEPT !.child = TRUE,
                            !.cleaned = TRUE, !.pc = "cancelled"]]
           ELSE /\ UNCHANGED <<running, exited>>
                /\ rq' = [rq EXCEPT ![r] = [@ EXCEPT !.child = TRUE,
                            !.pending = @ \cup {"rm"},
                            !.cleaned = TRUE, !.pc = "cancelled"]]
    /\ fs' = RmTree(fs, rq[r].dir)
    /\ UNCHANGED <<client, nextId>>
    /\ UNCHANGED nvars
    /\ UNCHANGED pvars

\* 1999, 2034 (_wait_for_health, 1028-1042) and 2142-2153: cancelled while
\* the server is polled; no process is being awaited, and the finally block
\* awaits `docker rm -f` for 8 s
CancelNodeHealth(r) ==
    /\ rq[r].pc \in {"node_health", "node_health2"}
    /\ \E intime \in BOOLEAN :
        IF intime
        THEN /\ running' = running \ {rq[r].cname}
             /\ exited' = exited \ {rq[r].cname}
             /\ rq' = [rq EXCEPT ![r] = [@ EXCEPT !.cleaned = TRUE,
                                                   !.pc = "cancelled"]]
        ELSE /\ UNCHANGED <<running, exited>>
             /\ rq' = [rq EXCEPT ![r] = [@ EXCEPT !.pending = @ \cup {"rm"},
                                                   !.cleaned = TRUE,
                                                   !.pc = "cancelled"]]
    /\ fs' = RmTree(fs, rq[r].dir)
    /\ UNCHANGED <<client, nextId>>
    /\ UNCHANGED nvars
    /\ UNCHANGED pvars

\* execute_react_project 2190-2237 with _cleanup_react_project 2886-2909:
\* cancelled while the container is polled (2553-2634) or while the page is
\* captured; the finally block awaits `docker stop` for 5 s and removes the
\* directory
CancelReact(r) ==
    /\ rq[r].pc \in {"rp_health", "rp_capture"}
    /\ \E intime \in BOOLEAN :
        IF intime
        THEN /\ running' = running \ {rq[r].cname}
             /\ exited' = IF rq[r].cname \in running
                          THEN exited \cup {rq[r].cname} ELSE exited
             /\ rq' = [rq EXCEPT ![r] = [@ EXCEPT !.cleaned = TRUE,
                                                   !.pc = "cancelled"]]
        ELSE /\ UNCHANGED <<running, exited>>
             /\ rq' = [rq EXCEPT ![r] = [@ EXCEPT !.pending = @ \cup {"stop"},
                                                   !.cleaned = TRUE,
                                                   !.pc = "cancelled"]]
    /\ fs' = RmTree(fs, rq[r].dir)
    /\ UNCHANGED <<client, nextId>>
    /\ UNCHANGED nvars
    /\ UNCHANGED pvars

\* the task of request r is cancelled at one of its awaits
Cancel(r) ==
    \/ CancelProgram(r)
    \/ CancelHtml(r)
    \/ CancelNodeStart(r)
    \/ CancelNodeHealth(r)
    \/ CancelReact(r)

\* one request whose task may be cancelled
SpecCancel == Init /\ [][Step(1) \/ Cancel(1)]_vars

NormInit == NInit /\ EIdle /\ PIdle

FilesSpecInit ==
    FilesInit /\ syn = SynIdle /\ fn = FnIdle /\ dep = DepIdle /\ au = AuIdle
    /\ NIdle /\ EIdle

SpecFiles == FilesSpecInit /\ [][FilesNext]_vars

InputInit ==
    SynInit /\ sb = SbIdle /\ fn = FnIdle /\ dep = DepIdle /\ au = AuIdle
    /\ NIdle /\ EIdle

SpecInput == InputInit /\ [][SynNext]_vars

NamesInit ==
    FnInit /\ sb = SbIdle /\ syn = SynIdle /\ dep = DepIdle /\ au = AuIdle
    /\ NIdle /\ EIdle

SpecNames == NamesInit /\ [][PrepareName]_vars

DepSpecInit ==
    DepInit /\ sb = SbIdle /\ syn = SynIdle /\ fn = FnIdle /\ au = AuIdle
    /\ NIdle /\ EIdle

SpecDeps == DepSpecInit /\ [][DepNext]_vars

AuthSpecInit ==
    AuInit /\ sb = SbIdle /\ syn = SynIdle /\ fn = FnIdle /\ dep = DepIdle
    /\ NIdle /\ EIdle

SpecAuth == AuthSpecInit /\ [][AuthNext]_vars

NormNext == Normalize \/ NormalizeAgain

SpecNorm == NormInit /\ [][NormNext]_vars

(***************************************************************************)
(* The texts a runner hands back.  nOut is the text the child produced     *)
(* (stdout of the program, stderr of the compiler, the rendered page),     *)
(* nRes1 the output and nRes2 the logs of the returned tuple; ""           *)
(* is the text of one empty line.                                          *)
(***************************************************************************)
\* 1475-1484 (C), 1642-1651 (Java), 636-637 and 1324-1325 (Python): the
\* run ended, both texts are cropped, the logs only when not empty
ReturnRun ==
    /\ nPc = "in"
    /\ \E errors \in {<<<<>>>>, nOut} :
        /\ nRes1' = normalize_output(nOut)
        /\ nRes2' = IF errors # <<<<>>>> THEN normalize_output(errors) ELSE errors
    /\ nPc' = "run"
    /\ UNCHANGED nOut
    /\ UNCHANGED evars
    /\ UNCHANGED pvars

\* 1429-1432 (C), 1579-1583 (Java): f"Compilation error: {errors}"
ReturnCompileError ==
    /\ nPc = "in"
    /\ nRes1' = <<<<>>>>
    /\ nRes2' = << <<"C","o","m","p","i","l","a","t","i","o","n"," ",
                     "e","r","r","o","r",":"," ">> \o Head(nOut) >> \o Tail(nOut)
    /\ nPc' = "compile_error"
    /\ UNCHANGED nOut
    /\ UNCHANGED evars
    /\ UNCHANGED pvars

\* 1455-1456, 1472-1473 (C), 1612-1615, 1630-1633 (Java)
ReturnTimeout ==
    /\ nPc = "in"
    /\ nRes1' = <<<<>>>>
    /\ nRes2' = << <<"E","x","e","c","u","t","i","o","n"," ","t","i","m","e",
                     "o","u","t"," ","(","3","0","s"," ","l","i","m","i","t",")">> >>
    /\ nPc' = "timeout"
    /\ UNCHANGED nOut
    /\ UNCHANGED evars
    /\ UNCHANGED pvars

\* _execute_html_code 1821-1829: page.content() and the console messages
\* are returned as they are; execute_code (426-428) passes them on
ReturnWeb ==
    /\ nPc = "in"
    /\ \E logs \in {<<<<>>>>, nOut} :
        /\ nRes1' = nOut
        /\ nRes2' = logs
    /\ nPc' = "web"
    /\ UNCHANGED nOut
    /\ UNCHANGED evars
    /\ UNCHANGED pvars

ReturnNext == ReturnRun \/ ReturnCompileError \/ ReturnTimeout \/ ReturnWeb

SpecReturn == NormInit /\ [][ReturnNext]_vars


(***************************************************************************)
(* Properties.                                                             *)
(***************************************************************************)
Last(seq) == seq[Len(seq)]

Done(r) == rq[r].pc = "done"

InFlight(r) == rq[r].pc \notin {"idle", "done"}

PdPcs == {"pd_setup", "pd_run", "pd_wait", "pd_finally"}
PpPcs == {"pp_setup", "pp_run"}
CPcs == {"c_setup", "c_compile", "c_blocked", "c_run"}
JPcs == {"j_setup", "j_compile", "j_blocked", "j_run"}
HtmlPcs == {"html_setup", "html_render"}
NodePcs == {"node_setup", "node_start", "node_health", "node_repair",
            "node_restart", "node_health2", "node_capture", "node_finally"}
RpPcs == {"rp_setup", "rp_start", "rp_health", "rp_capture", "rp_cleanup"}
Between == {"idle", "ret", "done"}

SandboxDirKinds ==
    {"python_exec_", "python_exec_sub_", "html_", "node_app_", "react_spa_"}

IsServerRun(q) ==
    Last(q.route) \in {"_execute_node_code", "execute_react_project"}

IsProgramRun(q) ==
    Last(q.route) \in {"_execute_python_docker", "_execute_python_code",
                       "_execute_c_code", "_execute_java_code"}

\* C1: execute_code always returns the documented result tuple
\* (success, output, logs, exit_code, files), and a result with
\* success = false carries a non-empty logs text.
C1_ResultTupleWithLogs ==
    \A r \in Reqs :
        (Done(r) /\ rq[r].entry = "execute_code") =>
            /\ Len(rq[r].res) = 5
            /\ (rq[r].res[1] = FALSE => rq[r].res[3] # "")

\* C2: once the entry point has returned, the sandbox directory of the
\* request no longer exists and no container started for it is running.
C2_CleanupGuarantee ==
    \A r \in Reqs :
        Done(r) =>
            /\ (rq[r].dir.kind \in SandboxDirKinds => rq[r].dir \notin fs)
            /\ (rq[r].started => rq[r].cname \notin running)

\* C3: two requests in flight never write to the same path and never own
\* the same container name.
C3_SandboxExclusive ==
    \A r1, r2 \in Reqs :
        (r1 # r2 /\ InFlight(r1) /\ InFlight(r2)) =>
            /\ rq[r1].paths \cap rq[r2].paths = {}
            /\ (rq[r1].cname # NoName => rq[r1].cname # rq[r2].cname)

\* C4: normalize_output is idempotent: cropping the cropped text again
\* changes nothing.
C4_Idempotent ==
    nPc = "twice" => nRes2 = nRes1

\* C5: a text of more than 20 lines, none wider than 120 characters, is
\* cropped to exactly 17 lines: the first 10, "...", the last 5, the
\* truncation marker.
C5_SeventeenLines ==
    (/\ nPc \in {"once", "twice"}
     /\ Len(nOut) > 20
     /\ \A i \in 1..Len(nOut) : Len(nOut[i]) <= 120)
    => nRes1 = SubSeq(nOut, 1, 10) \o <<Ellipsis>>
               \o SubSeq(nOut, Len(nOut) - 4, Len(nOut)) \o <<MarkerLine>>

\* C6: in the cropped text every kept input line wider than 120 characters
\* is its first 100 characters, "...", its last 15 characters, and every
\* kept input line of at most 120 characters is unchanged.
C6_LineWidthCrop ==
    nPc \in {"once", "twice"} =>
        LET n == Len(nOut)
            Expected(l) ==
                IF Len(l) > 120
                THEN SubSeq(l, 1, 100) \o <<".", ".", ".">>
                     \o SubSeq(l, Len(l) - 14, Len(l))
                ELSE l
        IN IF n <= 20
           THEN /\ Len(nRes1) >= n
                /\ \A i \in 1..n : nRes1[i] = Expected(nOut[i])
           ELSE /\ Len(nRes1) >= 16
                /\ \A i \in 1..10 : nRes1[i] = Expected(nOut[i])
                /\ \A j \in 1..5 : nRes1[11 + j] = Expected(nOut[n - 5 + j])

\* C6 happens: a 200-character line was cropped to 100 + "..." + 15 and
\* the short line next to it was kept as it was
C6_Witness ==
    /\ nPc = "once"
    /\ Len(nOut) >= 2
    /\ nOut[1] = Wide200
    /\ nRes1[1] = Rep("x", 100) \o Ellipsis \o Rep("z", 15)
    /\ Len(nOut[2]) <= 120
    /\ nRes1[2] = nOut[2]

\* C7: a returned success = true implies exit_code = 0; for a process or
\* container run the program exited with status 0, for a server run
\* (Node, React) a health check of the started server passed.
C7_SuccessMeansZeroOrHealthy ==
    \A r \in Reqs :
        (Done(r) /\ rq[r].res[1] = TRUE) =>
            /\ rq[r].res[4] = 0
            /\ (IsProgramRun(rq[r]) => rq[r].exit = 0)
            /\ (IsServerRun(rq[r]) => rq[r].healthy)

\* C7 happens: a Node run returned success after its health check passed
C7_Witness ==
    \E r \in Reqs :
        /\ Done(r)
        /\ Last(rq[r].route) = "_execute_node_code"
        /\ rq[r].res[1] = TRUE
        /\ rq[r].healthy

\* C8: execute_code dispatches by language: html, react and node to the
\* web runners, python to the container runner when the client was obtained
\* at construction and to the host-process runner otherwise, c and java to
\* their compiled-language runner; a request is only ever inside a runner
\* of its own language.
C8_DispatchByLanguage ==
    \A r \in Reqs :
        rq[r].entry = "execute_code" =>
            LET q == rq[r]
            IN /\ q.lang \in Languages
               /\ q.lang = "html" =>
                    /\ q.route = <<"_execute_web_code", "_execute_html_code">>
                    /\ q.pc \in HtmlPcs \cup Between
               /\ q.lang = "node" =>
                    /\ q.route = <<"_execute_web_code", "_execute_node_code">>
                    /\ q.pc \in NodePcs \cup Between
               /\ q.lang = "react" =>
                    /\ q.route[1] = "_execute_web_code"
                    /\ q.pc \in NodePcs \cup RpPcs \cup Between
               /\ (q.lang = "python" /\ client) =>
                    /\ q.route = <<"_execute_python_docker">>
                    /\ q.pc \in PdPcs \cup Between
               /\ (q.lang = "python" /\ ~client) =>
                    /\ q.route = <<"_execute_python_code">>
                    /\ q.pc \in PpPcs \cup Between
               /\ q.lang = "c" =>
                    /\ q.route = <<"_subprocess_execute", "_execute_c_code">>
                    /\ q.pc \in CPcs \cup Between
               /\ q.lang = "java" =>
                    /\ q.route = <<"_subprocess_execute", "_execute_java_code">>
                    /\ q.pc \in JPcs \cup Between

\* C8 happens: without a client a Python request runs as a host process
\* while a C request is in the compiled-language runner
C8_Witness ==
    /\ ~client
    /\ \E r1, r2 \in Reqs :
        /\ rq[r1].lang = "python"
        /\ rq[r1].pc = "pp_run"
        /\ rq[r2].lang = "c"
        /\ rq[r2].pc = "c_run"

\* C9: when the container runtime raises an error while a Python request is
\* run in a container, the request is executed on the host-process path
\* instead and is not failed because of the runtime error.
C9_FallbackOnRuntimeError ==
    \A r \in Reqs :
        (Done(r) /\ rq[r].lang = "python" /\ rq[r].fault = "runtime") =>
            /\ rq[r].dir.kind = "python_exec_sub_"
            /\ rq[r].res # DockerErrorResult

\* C10: when the wait on the Python container exceeds the container
\* timeout, the container is killed and removed before the call returns
\* and the result has success = false and exit_code = 124.
C10_ContainerTimeout ==
    \A r \in Reqs :
        (/\ Done(r)
         /\ Last(rq[r].route) = "_execute_python_docker"
         /\ rq[r].fault = "timeout")
        => /\ rq[r].cname \notin running \cup exited
           /\ rq[r].res[1] = FALSE
           /\ rq[r].res[4] = 124

\* C10 happens: a container run that timed out has returned
C10_Witness ==
    \E r \in Reqs :
        /\ Done(r)
        /\ Last(rq[r].route) = "_execute_python_docker"
        /\ rq[r].started
        /\ rq[r].fault = "timeout"

IsCompiledRun(q) ==
    Last(q.route) \in {"_execute_c_code", "_execute_java_code"}

\* C11: when a compiled C or Java program exceeds the 30-second limit, the
\* result has success = false and the timeout exit code 124, and its
\* output is the stdout the program had written before it was killed.
C11_TimeoutKeepsStdout ==
    \A r \in Reqs :
        (Done(r) /\ IsCompiledRun(rq[r]) /\ rq[r].fault = "timeout") =>
            /\ rq[r].res[1] = FALSE
            /\ rq[r].res[4] = 124
            /\ rq[r].res[2] = rq[r].out

\* C12: when the compiler of a C/C++ or Java source exits with a non-zero
\* status, the compiled program is never started and the result is
\* success = false, exit_code = the compiler's exit status, logs holding
\* the compiler's diagnostics.
C12_CompileFailure ==
    \A r \in Reqs :
        (/\ Done(r)
         /\ IsCompiledRun(rq[r])
         /\ rq[r].cstatus \notin {NoExit, 0})
        => /\ ~rq[r].ran
           /\ rq[r].exit = NoExit
           /\ rq[r].res[1] = FALSE
           /\ rq[r].res[4] = rq[r].cstatus
           /\ rq[r].res[3] = "Compilation error: " \o rq[r].cdiag

\* C12 happens: a Java compilation that exited with status 2 has returned
C12_Witness ==
    \E r \in Reqs :
        /\ Done(r)
        /\ Last(rq[r].route) = "_execute_java_code"
        /\ rq[r].cstatus = 2
        /\ rq[r].res[4] = 2

\* C17: within one web-project request the auto-repair pass runs at most
\* once: the server container is started at most twice and the health
\* check is run at most twice, and a second start happens only in the
\* repair pass.
C17_RepairAtMostOnce ==
    \A r \in Reqs :
        (rq[r].pc # "idle" /\ IsServerRun(rq[r])) =>
            /\ rq[r].starts <= 2
            /\ rq[r].checks <= 2
            /\ (rq[r].starts = 2 => rq[r].retried)
            /\ (rq[r].checks = 2 => rq[r].retried)

\* C17 happens: a Node run was repaired and restarted, its second health
\* check failed as well, and it returned without a third start
C17_Witness ==
    \E r \in Reqs :
        /\ Done(r)
        /\ Last(rq[r].route) = "_execute_node_code"
        /\ rq[r].retried
        /\ rq[r].starts = 2
        /\ rq[r].checks = 2
        /\ ~rq[r].healthy

\* the phase of a web-project run the request is in; the directory, the
\* manifest with the resolved dependencies and the server file are written
\* in one step (Materializing, DependencyResolved), reading the logs of a
\* server that failed its health check belongs to HealthChecking, and
\* Repairing lies inside the step from there to the second Starting
Phase(q) ==
    IF q.pc = "idle" THEN "None"
    ELSE IF ~IsServerRun(q) THEN "None"
    ELSE CASE q.pc \in {"node_setup", "rp_setup"} -> "Materializing"
           [] q.pc \in {"node_start", "node_restart", "rp_start"} -> "Starting"
           [] q.pc \in {"node_health", "node_health2", "rp_health",
                        "node_repair"} -> "HealthChecking"
           [] q.pc = "rp_capture" -> "Capturing"
           [] q.pc = "node_capture" ->
                IF q.healthy THEN "Capturing" ELSE "Failed"
           [] q.pc \in {"node_finally", "rp_cleanup"} -> "CleaningUp"
           [] q.pc \in {"ret", "done"} -> "Returned"

PhaseEdges ==
    { <<"None", "Materializing">>,
      <<"Materializing", "Starting">>,
      <<"Starting", "HealthChecking">>,
      <<"HealthChecking", "Capturing">>,
      <<"HealthChecking", "Starting">>,
      <<"HealthChecking", "Failed">>,
      <<"Materializing", "CleaningUp">>,
      <<"Starting", "CleaningUp">>,
      <<"HealthChecking", "CleaningUp">>,
      <<"Capturing", "CleaningUp">>,
      <<"Failed", "CleaningUp">>,
      <<"CleaningUp", "Returned">> }

C19_RouteOutputs ==
    \A r \in Reqs :
        (/\ Done(r)
         /\ rq[r].entry = "execute_react_project"
         /\ rq[r].res[1] = TRUE)
        => /\ DOMAIN rq[r].res[5] = Range(rq[r].routes)
           /\ \A route \in Range(rq[r].routes) :
                /\ rq[r].res[5][route].kind = "markup"
                /\ rq[r].res[5][route].of = route

\* C20: every request eventually returns: no phase waits without a bound.
C20_EventuallyReturns ==
    \A r \in Reqs : (rq[r].pc # "idle") ~> Done(r)

\* C13: after a run in file-sandbox mode, collect_output_files reports a
\* file as generated if and only if it is not in the snapshot or its hash
\* differs from the snapshot (a pre-created input file the program
\* modified included), reports a pre-created file with an unchanged hash
\* as input, and lists no other file, in particular not the program
\* source and not the dependency manifest.
C13_FileDiff ==
    sb.pc = "end" =>
        LET snapshot == sb.ctx.snapshot
            others == DOMAIN sb.disk \ {ProgramFile, Manifest}
            Changed(n) ==
                n \notin DOMAIN snapshot \/ Hash(Preview(sb.disk[n])) # snapshot[n]
            Entry(n, t) ==
                [filename |-> n, content |-> Preview(sb.disk[n]), type |-> t]
        IN /\ \A e \in sb.collected : e.filename \in others
           /\ \A n \in others :
                /\ Entry(n, "generated") \in sb.collected <=> Changed(n)
                /\ Entry(n, "input") \in sb.collected <=> ~Changed(n)

\* C14: for a C source with N scanf calls, each reading one value, and for
\* a Java source with N Scanner.nextX() calls, the synthesizer supplies
\* exactly N values, whatever the Scanner variable is called and whatever
\* the format specifiers are.
C14_InputCountMatchesDemand ==
    syn.pc = "done" =>
        /\ (/\ syn.lang = "c"
            /\ \A i \in 1..Len(syn.src) : Conversions(syn.src[i], 1) = 1)
           => Len(syn.values) = Len(syn.src)
        /\ syn.lang = "java" => Len(syn.values) = Len(syn.src.calls)

\* C15: for a Python source with k >= 1 input( calls, whatever its topic
\* flags are, the list of mock answers has exactly k elements.
C15_MockAnswerCount ==
    (syn.pc = "done" /\ syn.lang = "python" /\ syn.k >= 1) =>
        Len(syn.values) = syn.k

\* C15 happens: a student-marks source without split and with two input
\* calls, for which three marks are chosen, was given two answers
C15_Witness ==
    /\ syn.pc = "done"
    /\ syn.lang = "python"
    /\ syn.k = 2
    /\ Flags(syn.src).is_student_marks
    /\ Flags(syn.src).is_pass_fail
    /\ ~Flags(syn.src).uses_split_for_marks
    /\ ~Flags(syn.src).is_menu_program
    /\ Len(SeparateMarks(2)) = 3
    /\ Len(syn.values) = 2

\* C16: when the Python source wraps an input call in int( ), every mock
\* answer parses as an integer, whichever topic branch chose the values.
C16_NumericAnswers ==
    (/\ syn.pc = "done"
     /\ syn.lang = "python"
     /\ \E i \in 1..Len(syn.src) : syn.src[i] = IntCall)
    => \A i \in 1..Len(syn.values) : ParsesAsInt(syn.values[i])

\* C16 happens: a menu source with int(input( got "12345" in the place of
\* "Sample Item 1"
C16_Witness ==
    /\ syn.pc = "done"
    /\ syn.lang = "python"
    /\ syn.k >= 2
    /\ Flags(syn.src).is_menu_program
    /\ Flags(syn.src).uses_int_input
    /\ ~ParsesAsInt(MenuInputs(syn.k)[2])
    /\ syn.values[2] = <<"1","2","3","4","5">>

\* C23: after a web-project run (Node or React) has returned, whatever its
\* outcome, the container it started is neither running nor present: no
\* container with the request's name remains in the runtime.
C23_WebContainerRemoved ==
    \A r \in Reqs :
        (Done(r) /\ IsServerRun(rq[r]) /\ rq[r].started) =>
            ~NameInUse(rq[r].cname)

\* C29: in the Node auto-repair path the second start is issued only after
\* the removal of the first container has completed: when the runner is
\* about to restart, no removal is outstanding and the name is free.
C29_RestartAfterRemoval ==
    \A r \in Reqs :
        rq[r].pc = "node_restart" =>
            /\ "rm" \notin rq[r].pending
            /\ ~NameInUse(rq[r].cname)

\* C30: after a compiled-language request (C/C++ or Java) has returned, on
\* every outcome, every file the runner created for it has been deleted:
\* the source file, the executable, and every .class file the compiler
\* emitted.  Checked while no other request is in flight, so that a file of
\* the same name is not one another request has just written.
C30_CompiledFilesDeleted ==
    \A r \in Reqs :
        (/\ Done(r)
         /\ IsCompiledRun(rq[r])
         /\ \A o \in Reqs \ {r} : rq[o].pc = "idle")
        => rq[r].paths \cap fs = {}

\* C24: whenever normalize_output crops its input, by line count or by
\* line width, the truncation marker line appears exactly once in the
\* result, as its last line, also for an input whose own text already
\* holds the words of the marker.
C24_MarkerOnceLast ==
    (/\ nPc \in {"once", "twice"}
     /\ \/ Len(nOut) > 20
        \/ \E i \in 1..Len(nOut) : Len(nOut[i]) > 120)
    => /\ nRes1[Len(nRes1)] = MarkerLine
       /\ Cardinality({ i \in 1..Len(nRes1) : nRes1[i] = MarkerLine }) = 1

\* C27: every stdout and logs text execute_code returns, on every path
\* (run, compilation error, timeout, web output), has been cropped by
\* normalize_output: it has at most 20 lines and no line wider than 120
\* characters.
C27_ReturnedTextsCropped ==
    nPc \in {"run", "compile_error", "timeout", "web"} =>
        \A t \in {nRes1, nRes2} :
            /\ Len(t) <= 20
            /\ \A i \in 1..Len(t) : Len(t[i]) <= 120

\* the components of a path, the text between its "/" separators
RECURSIVE PathSegments(_)
PathSegments(p) ==
    IF \E i \in 1..Len(p) : p[i] = "/"
    THEN LET i == CHOOSE k \in 1..Len(p) :
                    p[k] = "/" /\ \A j \in 1..(k - 1) : p[j] # "/"
         IN <<SubSeq(p, 1, i - 1)>> \o PathSegments(SubSeq(p, i + 1, Len(p)))
    ELSE <<p>>

\* walking the components from a directory `depth` levels below the
\* sandbox directory leads above the sandbox directory
RECURSIVE LeavesSandbox(_, _)
LeavesSandbox(segs, depth) ==
    IF segs = <<>> THEN FALSE
    ELSE IF Head(segs) = <<".", ".">>
         THEN depth = 0 \/ LeavesSandbox(Tail(segs), depth - 1)
    ELSE IF Head(segs) \in {<<>>, <<".">>}
         THEN LeavesSandbox(Tail(segs), depth)
    ELSE LeavesSandbox(Tail(segs), depth + 1)

\* C28: for every extracted file name the path at which
\* prepare_sandbox_files materializes the file lies inside the sandbox
\* directory: the result of _sanitize_filename has no ".." path segment and
\* does not start with a path separator.
C28_NameStaysInSandbox ==
    fn.pc = "done" =>
        /\ ~LeavesSandbox(PathSegments(fn.path), 0)
        /\ <<".", ".">> \notin Range(PathSegments(fn.sanitized))
        /\ fn.sanitized[1] \notin {"/", "\\"}

\* C26: in the containerized Python runner the container has network
\* access only during the installation of the dependencies: it has none
\* while the user's program runs, and none in a run without dependencies.
C26_NetworkOnlyForInstall ==
    (sb.mode = "docker" /\ sb.net) => (sb.deps /\ sb.pc = "install")

\* C25: every package of the manifest a web-project container installs
\* from, inferred by the scan or added by the auto-repair, has the version
\* of the known-version table when the table has the package and the
\* wildcard otherwise; base dependencies keep their pinned versions, and
\* the scan never adds a framework-builtin package.
C25_ManifestVersions ==
    dep.pc \in {"written", "repaired"} =>
        LET base == BaseDeps(dep.kind)
        IN /\ \A pkg \in DOMAIN dep.manifest :
                dep.manifest[pkg] =
                    IF pkg \in DOMAIN base THEN base[pkg]
                    ELSE IF pkg \in DOMAIN known_versions
                         THEN known_versions[pkg]
                    ELSE "*"
           /\ DOMAIN base \subseteq DOMAIN dep.manifest
           /\ (DOMAIN dep.inferred \cap FrameworkBuiltins) \subseteq DOMAIN base

\* C22: an authenticated user is never given an upload owned by a
\* different user: verify_upload_ownership answers 404 for an upload that
\* does not exist and 403 for one whose owner is another user, and the
\* listing of assignments returns only uploads owned by the requesting
\* user.
C22_UploadOwnership ==
    au.pc = "done" =>
        /\ \A i \in au.response.uploads :
                i \in DOMAIN au.table /\ au.table[i] \in {au.user, NoOwner}
        /\ au.route = "parse_file" =>
                /\ (au.id \notin DOMAIN au.table => au.response.status = 404)
                /\ (au.id \in DOMAIN au.table /\ au.table[au.id] \in Users \ {au.user})
                        => au.response.status = 403
        /\ au.route = "get_user_assignments" =>
                au.response.uploads =
                    { i \in DOMAIN au.table : au.table[i] = au.user }

\* C22 happens: user 1 asked to parse an upload of user 2 and was refused,
\* while the table also holds an upload of user 1
C22_Witness ==
    /\ au.pc = "done"
    /\ au.route = "parse_file"
    /\ au.user = 1
    /\ au.id \in DOMAIN au.table
    /\ au.table[au.id] = 2
    /\ \E i \in DOMAIN au.table : au.table[i] = 1
    /\ au.response = Rejected(403)

\* C21: when the task of a request is cancelled at an await (program run,
\* container start, health poll, browser wait), the cleanup still runs
\* before control leaves the runner: no process or container started for
\* the request is left alive, and the files it wrote are deleted.
C21_CancelRunsCleanup ==
    \A r \in Reqs :
        rq[r].pc = "cancelled" =>
            /\ ~rq[r].child
            /\ rq[r].cname \notin running
            /\ rq[r].paths \cap fs = {}

====
